---- MODULE Spec2Model ----
(***************************************************************************)
(* Scene and interaction layer of the Ishetar game: the grid movement,     *)
(* trigger, dialogue and choice-menu state machine of IshetarScene1,       *)
(* IshetarScene2, IshetarScene3 and TravelScene.                           *)
(*                                                                         *)
(* One scene runs at a time.  The variables are the fields of the running  *)
(* scene instance together with the engine objects it owns (its tweens,    *)
(* its delayed calls, its DialogueRenderer and LevelUpOverlay).  Every     *)
(* handler of the code is an operator from a scene record to a scene       *)
(* record, so that the calls a handler makes compose in the order the code *)
(* makes them; an action commits the record its handler returns.           *)
(***************************************************************************)
EXTENDS Integers, Sequences, FiniteSets, TLC

VARIABLES
  scene,                    \* key of the running scene
  paused,                   \* scene.pause() is in effect (MenuScene is on top)
  playerGridX, playerGridY, \* grid position of the player
  playerFacing,             \* 'front' | 'back' | 'left' | 'right'
  isMoving,                 \* a move animation is in progress
  isInDialogue,             \* input is routed to a modal session
  npcs,                     \* town scenes: the NPC list built by placeNPCs
  locations,                \* TravelScene: the list built by placeLocationMarkers
  terrain,                  \* the terrain array the scene reads (by name)
  gameFlags,                \* story flags that are set
  heroId,                   \* id of the hero the player walks as
  heroState,                \* the party's hero states, as one value
  inventory,                \* the inventory, as one value
  chestStates,              \* the chests' states, as one value
  devMode,                  \* started from the developer's scene list
  triggeredEvents,          \* IshetarScene1: triggers fired since create
  shownBlockedDialogue,     \* TravelScene: blocked locations already warned about
  hasShownCongrats,         \* IshetarScene3
  pendingHrothgarDialogue,  \* town scenes
  dialogueRenderer,         \* the DialogueRenderer of the scene
  choiceMenuVisible, choiceMenuOptions, choiceMenuSelectedIndex, choiceMenuCallback,
  saveSlotPreviews, selectedSaveSlot,
  levelUpOverlay,           \* 0: null, n > 0: overlay waiting for input, n pages left
  playTime,                 \* seconds played up to sessionStartTime
  sessionStartTime,         \* town scenes: Date.now() at create or at the last save
  timers,                   \* delayed calls of the scene that have not fired yet
  tweens,                   \* move tweens of the scene that have not completed (targets)
  started,                  \* the data of the scene.start that started a scene outside this model
  narrator,                 \* NarratorScene: its fields
  mapCache,                 \* tiles of the cached town map's terrain a scene has set to 0
  boot                      \* the entry point: URL parameters, registered scenes, registry

sceneVars == <<scene, paused, playerGridX, playerGridY, playerFacing, isMoving, isInDialogue,
          npcs, locations, terrain, gameFlags, heroId, heroState, inventory, chestStates, devMode,
          triggeredEvents, shownBlockedDialogue, hasShownCongrats, pendingHrothgarDialogue, dialogueRenderer,
          choiceMenuVisible, choiceMenuOptions, choiceMenuSelectedIndex, choiceMenuCallback,
          saveSlotPreviews, selectedSaveSlot, levelUpOverlay, playTime, sessionStartTime, timers, tweens, started>>
vars == <<sceneVars, narrator, mapCache, boot>>

(***************************************************************************)
(* Bounds of the model.                                                    *)
(***************************************************************************)
\* longest text (cutscene, location description) the map data carries
MaxLines == 2
\* most heroes that level up in one battle (entries of data.levelUps)
MaxLevelUps == 1
\* save slots the SaveManager previews
NumSlots == 2
\* most direction keys held down in one frame
MaxHeld == 2
\* most times create has run on one scene instance when the scene is resumed
MaxCreates == 2
\* latest time a handler runs at, and most seconds played: times are whole seconds counted
\* from the create of the running scene
MaxTime == 1

(***************************************************************************)
(* Map data.  The JSON files (data_map_ishetar, data_map_travel) are read  *)
(* from the cache; the values below are one consistent choice of them.     *)
(* Coordinates the code itself fixes (IshetarScene2's NPCs, the gates) are *)
(* the code's.                                                             *)
(***************************************************************************)
Rect(x1, y1, x2, y2) == {<<x, y>> : x \in x1..x2, y \in y1..y2}

\* mapData.gridWidth, mapData.gridHeight of the two maps
TownGridWidth == 26
TownGridHeight == 19
TravelGridSize == 24

NorthGateUnlock == {<<13, 1>>, <<14, 1>>, <<13, 2>>, <<14, 2>>}
northGateTiles == {<<13, 2>>, <<14, 2>>}

\* town tiles of terrain value 0 in the cached map (everything else is 2, but TownSlow)
TownOpen ==
  Rect(22, 11, 24, 12) \cup Rect(8, 4, 13, 4) \cup Rect(13, 3, 14, 3) \cup Rect(19, 18, 20, 18)
    \cup {<<25, 11>>, <<25, 12>>, <<23, 13>>}
\* town tiles of terrain value 1 (difficult but walkable)
TownSlow == {<<11, 4>>, <<23, 11>>}

TravelOpen ==
  Rect(5, 19, 5, 23) \cup Rect(4, 20, 4, 21) \cup Rect(6, 20, 6, 22) \cup {<<7, 20>>, <<4, 13>>, <<5, 13>>}
TravelSlow == {<<5, 20>>}

\* the cell [y][x] of the cached town map's terrain as the JSON file has it
cachedValue(x, y) ==
  IF <<x, y>> \in TownSlow THEN 1
  ELSE IF <<x, y>> \in TownOpen \ NorthGateUnlock THEN 0
  ELSE 2

\* the cell [y][x] of a terrain array: "ishetar" is the cached array itself,
\* "ishetar_unlocked" the copy IshetarScene2 makes of it and unlocks
terrainValue(t, x, y) ==
  IF t = "travel"
    THEN (IF <<x, y>> \in TravelSlow THEN 1 ELSE IF <<x, y>> \in TravelOpen THEN 0 ELSE 2)
  ELSE IF t = "ishetar_unlocked" /\ <<x, y>> \in NorthGateUnlock THEN 0
  ELSE IF <<x, y>> \in mapCache THEN 0
  ELSE IF <<x, y>> \in TownSlow THEN 1
  ELSE IF <<x, y>> \in TownOpen \ NorthGateUnlock THEN 0
  ELSE 2

TownPlayerStart == <<23, 12>>
TravelPlayerStart == <<5, 21>>
Scene2DefaultStart == <<20, 18>>

Npc(id, x, y, n) == [id |-> id, gridX |-> x, gridY |-> y, lines |-> n]

heroPositions == <<<<17, 10>>, <<19, 10>>, <<17, 12>>, <<19, 12>>>>
partyHeroes == <<"azrael", "lyra", "thump", "rooker">>
PartyNpcs == [i \in 1..4 |-> Npc(partyHeroes[i], heroPositions[i][1], heroPositions[i][2], 1)]

\* IshetarScene2.placeNPCs: the list is fixed by the code
placeNPCs2 ==
  << Npc("meris", 22, 5, 3), Npc("rowena", 21, 5, 3), Npc("guard_north", 14, 3, 3),
     Npc("guard_east", 25, 11, 2), Npc("pelor", 8, 4, 1), Npc("villager_male", 9, 9, 2),
     Npc("villager_female", 9, 15, 2), Npc("child_male", 15, 18, 2),
     Npc("child_female", 22, 15, 2), Npc("hrothgar", 12, 15, 2), Npc("sombra", 20, 3, 1) >>
    \o PartyNpcs

\* mapData.npcs, with the dialogue lengths of IshetarScene1.placeNPCs
placeNPCs1 ==
  << Npc("rowena", 21, 5, 1), Npc("guard_north", 14, 3, 1), Npc("guard_east", 25, 11, 1),
     Npc("pelor", 8, 4, 1), Npc("villager_male", 9, 9, 1), Npc("villager_female", 9, 15, 1),
     Npc("child_male", 15, 18, 1), Npc("child_female", 22, 15, 1), Npc("hrothgar", 23, 13, 2) >>
    \o PartyNpcs

\* mapData.npcs, with the dialogue lengths of IshetarScene3.placeNPCs
placeNPCs3 ==
  << Npc("rowena", 21, 5, 3), Npc("guard_north", 14, 3, 2), Npc("guard_east", 25, 11, 2),
     Npc("pelor", 8, 4, 1), Npc("villager_male", 9, 9, 2), Npc("villager_female", 9, 15, 2),
     Npc("child_male", 15, 18, 2), Npc("child_female", 22, 15, 2), Npc("hrothgar", 23, 13, 2) >>
    \o PartyNpcs

\* mapData.triggers of the town map (IshetarScene1 reads them)
Trigger(id, type, tiles, battleMap, cutscene) ==
  [id |-> id, type |-> type, tiles |-> tiles, battleMap |-> battleMap, cutscene |-> cutscene]
MapTriggers ==
  << Trigger("south_gate_trigger", "battle", {<<22, 11>>, <<22, 12>>}, "south_gate", MaxLines),
     Trigger("east_road", "battle", {<<24, 11>>}, "east_road", 0),
     Trigger("plaza_story", "narrative", {<<23, 11>>, <<22, 11>>}, "", 1) >>

\* mapData.locations of the travel map
Location(id, type, b, n, battleMap, exploreMap, targetScene) ==
  [id |-> id, type |-> type, bounds |-> [x1 |-> b[1], y1 |-> b[2], x2 |-> b[3], y2 |-> b[4]],
   description |-> n, battleMap |-> battleMap, exploreMap |-> exploreMap,
   targetScene |-> targetScene]
placeLocationMarkers ==
  << Location("ishetar", "town", <<4, 22, 6, 23>>, 1, "", "", "IshetarScene1"),
     Location("hunting_paths", "battle", <<6, 20, 7, 20>>, MaxLines, "hunting_paths", "", ""),
     Location("quetzi_shrine", "battle", <<5, 13, 6, 13>>, 1, "quetzi_shrine", "", ""),
     Location("maple_tree", "explore", <<4, 19, 6, 20>>, 1, "", "maple_tree", ""),
     Location("red_vale", "blocked", <<3, 21, 4, 21>>, 1, "", "", ""),
     Location("cliffs", "blocked", <<6, 21, 7, 21>>, MaxLines, "", "", "") >>

TownScenes == {"IshetarScene1", "IshetarScene2", "IshetarScene3"}
GridScenes == TownScenes \cup {"TravelScene"}
Facings == {"front", "back", "left", "right"}
Dirs == {"left", "right", "up", "down"}

\* story flags the scenes read or write
SG == "south_gate_battle_complete"
HP == "hunting_paths_battle_complete"
QS == "quetzi_shrine_battle_complete"
AMB == "hellhound_ambush_triggered"
HC == "hellhound_cave_battle_complete"
TUT == "tutorial_complete"
\* flag sets a scene outside this model hands over (the story's progress)
FlagProfiles == {{}, {SG}, {SG, HP}, {SG, HP, QS}, {SG, HP, QS, AMB, HC}}
\* gameFlags[`${battleMap}_battle_complete`]
battleCompleteFlag(battleMap) ==
  CASE battleMap = "south_gate" -> SG
    [] battleMap = "hunting_paths" -> HP
    [] battleMap = "quetzi_shrine" -> QS
    [] battleMap = "hellhound_cave" -> HC
    [] OTHER -> "other_battle_complete"

(***************************************************************************)
(* Values.                                                                 *)
(***************************************************************************)
Cb(k, arg) == [k |-> k, arg |-> arg]
NoCb == Cb("none", "")
NoDialogue == [active |-> FALSE, remaining |-> 0, speaker |-> "", onComplete |-> NoCb]

\* a choice-menu label: 'Yes', 'No', 'Cancel', or `Slot ${slot}: ...`
Opt(text) == [text |-> text, slot |-> 0, empty |-> FALSE]
SlotOpt(slot, empty) == [text |-> "Slot", slot |-> slot, empty |-> empty]
NoPreviews == <<>>
\* value of a field that is overwritten before it is read again
DeadIndex == 0 - 1

\* hero states, inventories and chest states are passed on whole: each is one value.  A
\* field a payload lacks (undefined) is NoHeroState for heroState and "" for the others.
HeroState(of) == [of |-> of, restored |-> FALSE]
NoHeroState == HeroState("")
\* SaveManager.restoreAllResources(heroState): every hero at full HP, mana and ki
restoreAllResources(h) == [h EXCEPT !.restored = TRUE]
createDefaultInventory == "default"

Data(key, from, flags, levelUps, pos, hasHeroState) ==
  [key |-> key, from |-> from, gameFlags |-> flags, levelUps |-> levelUps,
   playerPosition |-> pos, hasHeroState |-> hasHeroState, hasGameFlags |-> TRUE,
   heroId |-> "", heroState |-> IF hasHeroState THEN HeroState("party") ELSE NoHeroState,
   inventory |-> "", chests |-> "", devMode |-> FALSE,
   hasSave |-> FALSE, saveFlags |-> {}, savePos |-> <<>>, playTime |-> 0, savePlayTime |-> 0,
   saveMainHero |-> "", saveHeroState |-> NoHeroState, saveInventory |-> "", saveChests |-> "",
   battleMap |-> "", exploreMap |-> "", returnPosition |-> <<>>]
NoData == Data("", "", {}, 0, <<>>, FALSE)

\* the running scene as one record; queued/evals/moves exist only while a handler runs
Cur ==
  [scene |-> scene, paused |-> paused, playerGridX |-> playerGridX, playerGridY |-> playerGridY,
   playerFacing |-> playerFacing, isMoving |-> isMoving, isInDialogue |-> isInDialogue,
   npcs |-> npcs, locations |-> locations, terrain |-> terrain, gameFlags |-> gameFlags,
   heroId |-> heroId, heroState |-> heroState, inventory |-> inventory,
   chestStates |-> chestStates, devMode |-> devMode,
   triggeredEvents |-> triggeredEvents, shownBlockedDialogue |-> shownBlockedDialogue,
   hasShownCongrats |-> hasShownCongrats, pendingHrothgarDialogue |-> pendingHrothgarDialogue,
   dialogueRenderer |-> dialogueRenderer, choiceMenuVisible |-> choiceMenuVisible,
   choiceMenuOptions |-> choiceMenuOptions, choiceMenuSelectedIndex |-> choiceMenuSelectedIndex,
   choiceMenuCallback |-> choiceMenuCallback, saveSlotPreviews |-> saveSlotPreviews,
   selectedSaveSlot |-> selectedSaveSlot, levelUpOverlay |-> levelUpOverlay,
   playTime |-> playTime, sessionStartTime |-> sessionStartTime,
   timers |-> timers, tweens |-> tweens, started |-> started, mapCache |-> mapCache,
   now |-> sessionStartTime,  \* what Date.now() returns while the handler runs
   queued |-> NoData,    \* scene.start issued by the handler, carried out when it returns
   evals |-> <<>>,       \* trigger evaluations the handler made: <<isMoving, x, y>> at each
   moves |-> <<>>,       \* outcome of each movePlayer call the handler made
   handled |-> <<>>,     \* id of each trigger the handler passed to handleTrigger
   saves |-> <<>>,       \* each SaveManager.save call the handler made
   completed |-> <<>>,   \* the onComplete of each dialogue session the handler ended
   choices |-> <<>>,     \* each call of a choice-menu callback the handler made
   opened |-> <<>>,      \* the onComplete of each dialogue session the handler started
   launched |-> <<>>,    \* initialView of each MenuScene the handler launched ("" if none given)
   scheduled |-> <<>>]   \* each delayed call the resume listeners set

(***************************************************************************)
(* Engine and helper objects.  DialogueRenderer, LevelUpOverlay and        *)
(* SaveManager are used by the scenes through the calls below.             *)
(***************************************************************************)
\* this.scene.start(key, data): carried out when the running handler has returned
sceneStart(s, data) == [s EXCEPT !.queued = data]
\* this.scene.pause(); this.scene.launch('MenuScene', ...)
scenePause(s) == [s EXCEPT !.paused = TRUE]
\* this.scene.launch('MenuScene', {..., initialView})
launchMenu(s, initialView) == [s EXCEPT !.launched = Append(@, initialView)]

\* dialogueRenderer.startDialogue(lines, speaker, onComplete), n = lines.length
startDialogue(s, n, speaker, cb) ==
  [s EXCEPT !.dialogueRenderer =
              [active |-> TRUE, remaining |-> n, speaker |-> speaker, onComplete |-> cb],
            !.opened = Append(@, cb)]
isDialogueActive(s) == s.dialogueRenderer.active

showChoiceMenu(s, options, cb) ==
  [s EXCEPT !.choiceMenuOptions = options, !.choiceMenuCallback = cb,
            !.choiceMenuSelectedIndex = 0, !.choiceMenuVisible = TRUE]

\* hideChoiceMenu leaving isInDialogue as it is: a variant the properties must tell apart
hideChoiceMenu_keepsDialogue(s) == [s EXCEPT !.choiceMenuVisible = FALSE]

hideChoiceMenu(s) == [s EXCEPT !.choiceMenuVisible = FALSE, !.isInDialogue = FALSE]

\* the data the scene hands to the scene it starts
getCurrentPlayTime(s) == s.playTime + (s.now - s.sessionStartTime)
\* startData leaving the chests out of the payload: a variant the properties must tell apart
startData_dropsChests(s, key) ==
  [Data(key, s.scene, s.gameFlags, 0, <<>>, TRUE) EXCEPT
     !.heroId = s.heroId, !.heroState = s.heroState, !.inventory = s.inventory,
     !.devMode = s.devMode,
     !.playTime = IF s.scene = "IshetarScene1" THEN getCurrentPlayTime(s) ELSE s.playTime]

startData(s, key) ==
  [Data(key, s.scene, s.gameFlags, 0, <<>>, TRUE) EXCEPT
     !.heroId = s.heroId, !.heroState = s.heroState, !.inventory = s.inventory,
     !.chests = s.chestStates, !.devMode = s.devMode,
     !.playTime = IF s.scene = "IshetarScene1" THEN getCurrentPlayTime(s) ELSE s.playTime]

\* saveGame taking the session's time into playTime whatever save returns: a variant the
\* properties must tell apart
saveGame_alwaysUpdates(s, slot, ok) ==
  LET totalPlayTime == s.playTime + (s.now - s.sessionStartTime)
      s1 == [s EXCEPT !.saves = Append(@, [slot |-> slot, x |-> s.playerGridX, y |-> s.playerGridY,
                                            flags |-> s.gameFlags,
                                            mainHero |-> s.heroId, currentMap |-> "",
                                            heroState |-> s.heroState, inventory |-> s.inventory,
                                            chests |-> s.chestStates,
                                            playTime |-> totalPlayTime, success |-> ok]),
                      !.playTime = totalPlayTime, !.sessionStartTime = s.now,
                      !.isInDialogue = TRUE]
  IN  startDialogue(s1, 1, "Shrine", Cb("clear", IF ok THEN "recorded" ELSE "not recorded"))

\* every town scene saving as the first one: a variant the properties must tell apart
currentMap_alwaysTown(s) == "ishetar_town"

\* saveData.currentMap as the saveGame of each town scene sets it
currentMap(s) ==
  CASE s.scene = "IshetarScene2" -> "ishetar_town_post_battle"
    [] s.scene = "IshetarScene3" -> "ishetar_town_post_tutorial"
    [] OTHER -> "ishetar_town"

\* saveGame(slot); ok is what SaveManager.save returns
saveGame(s, slot, ok) ==
  LET sessionSeconds == s.now - s.sessionStartTime
      totalPlayTime == s.playTime + sessionSeconds
      s1 == [s EXCEPT !.saves = Append(@, [slot |-> slot, x |-> s.playerGridX, y |-> s.playerGridY,
                                            flags |-> IF s.scene = "IshetarScene2"
                                                        THEN s.gameFlags \cup {SG} ELSE s.gameFlags,
                                            mainHero |-> s.heroId, currentMap |-> currentMap(s),
                                            heroState |-> s.heroState, inventory |-> s.inventory,
                                            chests |-> s.chestStates,
                                            playTime |-> totalPlayTime, success |-> ok])]
  IN  IF ok
        THEN startDialogue([s1 EXCEPT !.playTime = totalPlayTime, !.sessionStartTime = s.now,
                                      !.isInDialogue = TRUE],
                           1, "Shrine", Cb("clear", "recorded"))
      ELSE startDialogue([s1 EXCEPT !.isInDialogue = TRUE], 1, "Shrine", Cb("clear", "not recorded"))

showOverwriteConfirmation(s) ==
  startDialogue([s EXCEPT !.isInDialogue = TRUE], 1, "Shrine", Cb("overwrite", ""))

\* previews is what SaveManager.getAllSlotPreviews returns
showSaveSlotSelection(s, previews) ==
  LET s1 == [s EXCEPT !.saveSlotPreviews = previews]
      options == [i \in 1..Len(previews) |-> SlotOpt(previews[i].slot, previews[i].isEmpty)]
                   \o <<Opt("Cancel")>>
  IN  showChoiceMenu(s1, options, Cb("slotChoice", ""))

showShrineSaveMenu(s) == showChoiceMenu(s, <<Opt("Yes"), Opt("No")>>, Cb("shrineChoice", ""))

\* the match giving the first slot for every slot label: a variant the properties must tell
\* apart
slotMatch_firstSlot(choice) == IF choice.text = "Slot" THEN 1 ELSE 0

\* choice.match(/^Slot (\d+):/): the slot number, 0 when the label does not match
slotMatch(choice) == IF choice.text = "Slot" THEN choice.slot ELSE 0

\* the overwrite menu saving whatever is chosen: a variant the properties must tell apart
choiceMenuCallbackRun_savesOnNo(s, cb, choice, env) ==
  CASE cb.k = "shrineChoice" ->
         IF choice = Opt("Yes") THEN showSaveSlotSelection(s, env.previews) ELSE s
    [] cb.k = "slotChoice" ->
         IF choice = Opt("Cancel") THEN s
         ELSE IF slotMatch(choice) = 0 THEN s
         ELSE LET s1 == [s EXCEPT !.selectedSaveSlot = slotMatch(choice)]
                  found == {i \in 1..Len(s1.saveSlotPreviews) :
                              s1.saveSlotPreviews[i].slot = s1.selectedSaveSlot}
              IN  IF found # {} /\ ~s1.saveSlotPreviews[CHOOSE i \in found : \A j \in found : i <= j].isEmpty
                    THEN showOverwriteConfirmation(s1)
                    ELSE saveGame(s1, s1.selectedSaveSlot, env.saveOk)
    [] cb.k = "overwriteChoice" -> saveGame(s, s.selectedSaveSlot, env.saveOk)
    [] OTHER -> s

\* the callbacks handed to showChoiceMenu
choiceMenuCallbackRun(s, cb, choice, env) ==
  CASE cb.k = "shrineChoice" ->
         IF choice = Opt("Yes") THEN showSaveSlotSelection(s, env.previews) ELSE s
    [] cb.k = "slotChoice" ->
         IF choice = Opt("Cancel") THEN s
         ELSE IF slotMatch(choice) = 0 THEN s
         ELSE LET s1 == [s EXCEPT !.selectedSaveSlot = slotMatch(choice)]
                  found == {i \in 1..Len(s1.saveSlotPreviews) :
                              s1.saveSlotPreviews[i].slot = s1.selectedSaveSlot}
              IN  IF found # {} /\ ~s1.saveSlotPreviews[CHOOSE i \in found : \A j \in found : i <= j].isEmpty
                    THEN showOverwriteConfirmation(s1)
                    ELSE saveGame(s1, s1.selectedSaveSlot, env.saveOk)
    [] cb.k = "overwriteChoice" ->
         IF choice = Opt("Yes") THEN saveGame(s, s.selectedSaveSlot, env.saveOk) ELSE s
    [] OTHER -> s

\* the choice-menu callback is called with the label; the menu's visibility at the call is noted
called(s, cb, choice) ==
  [s EXCEPT !.choices = Append(@, [cb |-> cb, choice |-> choice, visible |-> s.choiceMenuVisible])]

\* selectChoiceMenuOption calling the callback before it hides the menu: a variant the
\* properties must tell apart
selectChoiceMenuOption_hidesLast(s, env) ==
  LET selectedOption == s.choiceMenuOptions[s.choiceMenuSelectedIndex + 1]
  IN  hideChoiceMenu(choiceMenuCallbackRun(called(s, s.choiceMenuCallback, selectedOption),
                                           s.choiceMenuCallback, selectedOption, env))

selectChoiceMenuOption(s, env) ==
  LET selectedOption == s.choiceMenuOptions[s.choiceMenuSelectedIndex + 1]
      s1 == hideChoiceMenu(s)
  IN  IF s.choiceMenuCallback = NoCb THEN s1
      ELSE choiceMenuCallbackRun(called(s1, s.choiceMenuCallback, selectedOption),
                                 s.choiceMenuCallback, selectedOption, env)

(***************************************************************************)
(* Dialogue callbacks and DialogueRenderer.advance.                        *)
(***************************************************************************)
isWithinBounds(gridX, gridY, bounds) ==
  gridX >= bounds.x1 /\ gridX <= bounds.x2 /\ gridY >= bounds.y1 /\ gridY <= bounds.y2

\* getLocationAtPosition taking the last match of the list: a variant the properties must tell apart
getLocationAtPosition_lastMatch(s, x, y) ==
  LET found == {i \in 1..Len(s.locations) : isWithinBounds(x, y, s.locations[i].bounds)}
  IN  IF found = {} THEN 0 ELSE CHOOSE i \in found : \A j \in found : i >= j

\* locations.find(loc => isWithinBounds(x, y, loc.bounds)): index of the first match, 0 if none
getLocationAtPosition(s, x, y) ==
  LET found == {i \in 1..Len(s.locations) : isWithinBounds(x, y, s.locations[i].bounds)}
  IN  IF found = {} THEN 0 ELSE CHOOSE i \in found : \A j \in found : i <= j

locationById(s, id) ==
  s.locations[CHOOSE i \in 1..Len(s.locations) : s.locations[i].id = id]

\* travelToLocation starting the scene the location names: a variant the properties must tell
\* apart
travelToLocation_targetScene(s, location) ==
  IF location.type = "town" /\ location.targetScene # ""
    THEN sceneStart(s, startData(s, location.targetScene))
  ELSE IF location.type = "battle" /\ location.battleMap # ""
    THEN sceneStart(s, [startData(s, "BattleScene") EXCEPT
                          !.battleMap = location.battleMap,
                          !.returnPosition = <<s.playerGridX, s.playerGridY>>])
  ELSE IF location.type = "explore" /\ location.exploreMap # ""
    THEN sceneStart(s, [startData(s, "ExploreScene") EXCEPT !.exploreMap = location.exploreMap])
  ELSE s

\* TravelScene.travelToLocation
travelToLocation(s, location) ==
  IF location.type = "town" /\ location.targetScene # ""
    THEN sceneStart(s, startData(s, IF HC \in s.gameFlags THEN "IshetarScene3" ELSE "IshetarScene2"))
  ELSE IF location.type = "battle" /\ location.battleMap # ""
    THEN sceneStart(s, [startData(s, "BattleScene") EXCEPT
                          !.battleMap = location.battleMap,
                          !.returnPosition = <<s.playerGridX, s.playerGridY>>])
  ELSE IF location.type = "explore" /\ location.exploreMap # ""
    THEN sceneStart(s, [startData(s, "ExploreScene") EXCEPT !.exploreMap = location.exploreMap])
  ELSE s

\* the onComplete closures handed to startDialogue
onComplete(s, cb) ==
  CASE cb.k = "clear" -> [s EXCEPT !.isInDialogue = FALSE]
    [] cb.k = "hrothgar" ->
         launchMenu(scenePause([s EXCEPT !.isInDialogue = FALSE,
                                         !.pendingHrothgarDialogue = TRUE]), "hrothgar")
    [] cb.k = "shrine" -> showShrineSaveMenu(s)
    [] cb.k = "overwrite" ->
         showChoiceMenu(s, <<Opt("Yes"), Opt("No")>>, Cb("overwriteChoice", ""))
    [] cb.k = "battle" ->
         sceneStart(s, [startData(s, "BattleScene") EXCEPT !.battleMap = cb.arg])
    [] cb.k = "ambush" ->
         sceneStart(s, [startData(s, "BattleScene") EXCEPT
                          !.battleMap = "hellhound_cave",
                          !.returnPosition = <<s.playerGridX, s.playerGridY>>])
    [] cb.k = "travel" -> travelToLocation(s, locationById(s, cb.arg))
    [] OTHER -> s

\* dialogueRenderer.advance(): the next line, or the end of the session and its onComplete
advance(s) ==
  IF ~s.dialogueRenderer.active THEN s
  ELSE IF s.dialogueRenderer.remaining > 1
    THEN [s EXCEPT !.dialogueRenderer.remaining = @ - 1]
  ELSE onComplete([s EXCEPT !.dialogueRenderer = NoDialogue,
                             !.completed = Append(@, s.dialogueRenderer.onComplete)],
                  s.dialogueRenderer.onComplete)

(***************************************************************************)
(* Movement.                                                               *)
(***************************************************************************)
\* isPassable without the NPC test: a variant the properties must tell apart
isPassable_ignoringNpcs(s, gridX, gridY) ==
  IF gridX < 0 \/ gridX >= TownGridWidth THEN FALSE
  ELSE IF gridY < 0 \/ gridY >= TownGridHeight THEN FALSE
  ELSE IF terrainValue(s.terrain, gridX, gridY) = 2 THEN FALSE
  ELSE TRUE

\* town scenes
isPassable(s, gridX, gridY) ==
  IF gridX < 0 \/ gridX >= TownGridWidth THEN FALSE
  ELSE IF gridY < 0 \/ gridY >= TownGridHeight THEN FALSE
  ELSE IF terrainValue(s.terrain, gridX, gridY) = 2 THEN FALSE
  ELSE IF \E i \in 1..Len(s.npcs) : s.npcs[i].gridX = gridX /\ s.npcs[i].gridY = gridY THEN FALSE
  ELSE TRUE

\* isPassableTravel taking only terrain value 0 as walkable: a variant the properties must tell apart
isPassableTravel_onlyZero(s, gridX, gridY) ==
  IF gridX < 0 \/ gridX >= TravelGridSize THEN FALSE
  ELSE IF gridY < 0 \/ gridY >= TravelGridSize THEN FALSE
  ELSE IF terrainValue(s.terrain, gridX, gridY) # 0 THEN FALSE
  ELSE TRUE

\* TravelScene
isPassableTravel(s, gridX, gridY) ==
  IF gridX < 0 \/ gridX >= TravelGridSize THEN FALSE
  ELSE IF gridY < 0 \/ gridY >= TravelGridSize THEN FALSE
  ELSE IF terrainValue(s.terrain, gridX, gridY) = 2 THEN FALSE
  ELSE TRUE

facingOf(dx, dy, old) ==
  IF dx > 0 THEN "right" ELSE IF dx < 0 THEN "left"
  ELSE IF dy > 0 THEN "front" ELSE IF dy < 0 THEN "back" ELSE old

\* startMove leaving the grid position for later: a variant the properties must tell apart
startMove_keepsPosition(s, newGridX, newGridY) ==
  [s EXCEPT !.isMoving = TRUE,
            !.tweens = Append(@, <<newGridX, newGridY>>),
            !.moves = Append(@, "accepted")]

\* this.tweens.add({... onComplete}) after the fields are set
startMove(s, newGridX, newGridY) ==
  [s EXCEPT !.isMoving = TRUE, !.playerGridX = newGridX, !.playerGridY = newGridY,
            !.tweens = Append(@, <<newGridX, newGridY>>),
            !.moves = Append(@, "accepted")]

\* movePlayer turning the player only when the move is accepted: a variant the properties must tell apart
movePlayer_turnOnAccept(s, dx, dy) ==
  IF s.isMoving \/ s.isInDialogue THEN [s EXCEPT !.moves = Append(@, "ignored")]
  ELSE LET newGridX == s.playerGridX + dx
           newGridY == s.playerGridY + dy
       IN  IF ~isPassable(s, newGridX, newGridY)
             THEN [s EXCEPT !.moves = Append(@, "rejected")]
             ELSE startMove([s EXCEPT !.playerFacing = facingOf(dx, dy, @)], newGridX, newGridY)

\* town scenes
movePlayer(s, dx, dy) ==
  IF s.isMoving \/ s.isInDialogue THEN [s EXCEPT !.moves = Append(@, "ignored")]
  ELSE LET newGridX == s.playerGridX + dx
           newGridY == s.playerGridY + dy
           s1 == [s EXCEPT !.playerFacing = facingOf(dx, dy, @)]
       IN  IF ~isPassable(s1, newGridX, newGridY)
             THEN [s1 EXCEPT !.moves = Append(@, "rejected")]
             ELSE startMove(s1, newGridX, newGridY)

\* movePlayerTravel warning at every blocked attempt: a variant the properties must tell apart
movePlayerTravel_alwaysWarns(s, dx, dy) ==
  IF s.isMoving \/ s.isInDialogue THEN [s EXCEPT !.moves = Append(@, "ignored")]
  ELSE LET newGridX == s.playerGridX + dx
           newGridY == s.playerGridY + dy
           s1 == [s EXCEPT !.playerFacing = facingOf(dx, dy, @)]
           target == getLocationAtPosition(s1, newGridX, newGridY)
       IN  IF ~isPassableTravel(s1, newGridX, newGridY)
             THEN [s1 EXCEPT !.moves = Append(@, "rejected")]
           ELSE IF target # 0 /\ s1.locations[target].type = "blocked"
             THEN LET loc == s1.locations[target]
                  IN  startDialogue([s1 EXCEPT !.moves = Append(@, "rejected"),
                                               !.isInDialogue = TRUE],
                                    loc.description, loc.id, Cb("clear", ""))
           ELSE startMove(s1, newGridX, newGridY)

\* TravelScene
movePlayerTravel(s, dx, dy) ==
  IF s.isMoving \/ s.isInDialogue THEN [s EXCEPT !.moves = Append(@, "ignored")]
  ELSE LET newGridX == s.playerGridX + dx
           newGridY == s.playerGridY + dy
           s1 == [s EXCEPT !.playerFacing = facingOf(dx, dy, @)]
           target == getLocationAtPosition(s1, newGridX, newGridY)
       IN  IF ~isPassableTravel(s1, newGridX, newGridY)
             THEN [s1 EXCEPT !.moves = Append(@, "rejected")]
           ELSE IF target # 0 /\ s1.locations[target].type = "blocked"
             THEN LET s2 == [s1 EXCEPT !.moves = Append(@, "rejected")]
                      loc == s1.locations[target]
                  IN  IF loc.id \notin s2.shownBlockedDialogue
                        THEN startDialogue([s2 EXCEPT !.shownBlockedDialogue = @ \cup {loc.id},
                                                      !.isInDialogue = TRUE],
                                           loc.description, loc.id, Cb("clear", ""))
                        ELSE s2
           ELSE startMove(s1, newGridX, newGridY)

(***************************************************************************)
(* Interaction.                                                            *)
(***************************************************************************)
facingOffsets(facing) ==
  CASE facing = "front" -> <<0, 1>>
    [] facing = "back" -> <<0, 0 - 1>>
    [] facing = "left" -> <<0 - 1, 0>>
    [] facing = "right" -> <<1, 0>>

\* npcs.find(n => n.gridX === x && n.gridY === y): index of the first match, 0 if none
npcAt(s, x, y) ==
  LET found == {i \in 1..Len(s.npcs) : s.npcs[i].gridX = x /\ s.npcs[i].gridY = y}
  IN  IF found = {} THEN 0 ELSE CHOOSE i \in found : \A j \in found : i <= j

handleShrineInteraction(s, npc) ==
  startDialogue([s EXCEPT !.heroState = restoreAllResources(@)],
                npc.lines + 1, npc.id, Cb("shrine", ""))

startNPCDialogue(s, npc) ==
  LET s1 == [s EXCEPT !.isInDialogue = TRUE]
  IN  IF npc.id = "pelor" THEN handleShrineInteraction(s1, npc)
      ELSE IF npc.id = "hrothgar" THEN startDialogue(s1, npc.lines, npc.id, Cb("hrothgar", ""))
      ELSE startDialogue(s1, npc.lines, npc.id, Cb("clear", ""))

\* tryInteract advancing the dialogue twice at a press: a variant the properties must tell apart
tryInteract_advancesTwice(s) ==
  IF s.isInDialogue
    THEN (IF s.scene = "IshetarScene2" /\ ~isDialogueActive(s) THEN s ELSE advance(advance(s)))
  ELSE LET offset == facingOffsets(s.playerFacing)
           npc == npcAt(s, s.playerGridX + offset[1], s.playerGridY + offset[2])
       IN  IF npc # 0 THEN startNPCDialogue(s, s.npcs[npc]) ELSE s

\* town scenes (IshetarScene1 and IshetarScene3 call advance without asking isDialogueActive)
tryInteract(s) ==
  IF s.isInDialogue
    THEN (IF s.scene = "IshetarScene2" /\ ~isDialogueActive(s) THEN s ELSE advance(s))
  ELSE LET offset == facingOffsets(s.playerFacing)
           npc == npcAt(s, s.playerGridX + offset[1], s.playerGridY + offset[2])
       IN  IF npc # 0 THEN startNPCDialogue(s, s.npcs[npc]) ELSE s

\* promptLocationInteraction without the tests of quetzi_shrine_battle_complete: a variant
\* the properties must tell apart
promptLocationInteraction_alwaysTravels(s, location) ==
  startDialogue([s EXCEPT !.isInDialogue = TRUE],
                location.description, location.id, Cb("travel", location.id))

\* TravelScene
promptLocationInteraction(s, location) ==
  LET s1 == [s EXCEPT !.isInDialogue = TRUE]
  IN  IF location.id = "hunting_paths" /\ QS \in s1.gameFlags
        THEN startDialogue(s1, 1, location.id, Cb("clear", ""))
      ELSE IF location.id = "quetzi_shrine" /\ QS \in s1.gameFlags
        THEN startDialogue(s1, 1, location.id, Cb("clear", ""))
      ELSE startDialogue(s1, location.description, location.id, Cb("travel", location.id))

tryInteractTravel(s) ==
  IF s.isInDialogue THEN advance(s)
  ELSE LET location == getLocationAtPosition(s, s.playerGridX, s.playerGridY)
       IN  IF location # 0 /\ s.locations[location].type # "blocked"
             THEN promptLocationInteraction(s, s.locations[location])
             ELSE s

(***************************************************************************)
(* Triggers: what the onComplete of a move tween evaluates.                *)
(***************************************************************************)
\* a trigger evaluation, with what it saw
evaluated(s) ==
  [s EXCEPT !.evals = Append(@, [isMoving |-> s.isMoving, x |-> s.playerGridX, y |-> s.playerGridY])]

\* IshetarScene1
handleTrigger(s, trigger) ==
  LET s0 == [s EXCEPT !.handled = Append(@, trigger.id)]
  IN  IF trigger.type = "battle"
        THEN LET s1 == [s0 EXCEPT !.isInDialogue = TRUE]
             IN  IF trigger.cutscene > 0
                   THEN startDialogue(s1, trigger.cutscene, "", Cb("battle", trigger.battleMap))
                   ELSE sceneStart(s1, [startData(s1, "BattleScene") EXCEPT !.battleMap = trigger.battleMap])
        ELSE s0

\* checkTriggers1 without the test of the completion flag: a variant the properties must tell apart
checkTriggers1_ignoringFlags(s) ==
  LET s0 == evaluated(s)
      hit == {i \in 1..Len(MapTriggers) :
                /\ MapTriggers[i].id \notin s0.triggeredEvents
                /\ <<s0.playerGridX, s0.playerGridY>> \in MapTriggers[i].tiles}
  IN  IF hit = {} THEN s0
      ELSE LET trigger == MapTriggers[CHOOSE i \in hit : \A j \in hit : i <= j]
           IN  handleTrigger([s0 EXCEPT !.triggeredEvents = @ \cup {trigger.id}], trigger)

\* IshetarScene1: the first trigger of mapData.triggers that is not skipped and is stood on
checkTriggers1(s) ==
  LET s0 == evaluated(s)
      hit == {i \in 1..Len(MapTriggers) :
                /\ MapTriggers[i].id \notin s0.triggeredEvents
                /\ ~(/\ MapTriggers[i].type = "battle"
                     /\ MapTriggers[i].battleMap # ""
                     /\ battleCompleteFlag(MapTriggers[i].battleMap) \in s0.gameFlags)
                /\ <<s0.playerGridX, s0.playerGridY>> \in MapTriggers[i].tiles}
  IN  IF hit = {} THEN s0
      ELSE LET trigger == MapTriggers[CHOOSE i \in hit : \A j \in hit : i <= j]
           IN  handleTrigger([s0 EXCEPT !.triggeredEvents = @ \cup {trigger.id}], trigger)

\* goToTravelMap sending an empty set of flags: a variant the properties must tell apart
goToTravelMap_dropsFlags(s) == sceneStart(s, [startData(s, "TravelScene") EXCEPT !.gameFlags = {}])

goToTravelMap(s) == sceneStart(s, startData(s, "TravelScene"))

\* IshetarScene2
checkTriggers(s) ==
  LET s0 == evaluated(s)
  IN  IF <<s0.playerGridX, s0.playerGridY>> \in northGateTiles THEN goToTravelMap(s0) ELSE s0

\* IshetarScene3
isInExitTrigger(gridX, gridY) == gridX = 25 /\ (gridY = 11 \/ gridY = 12)
exitToTravel(s) == sceneStart(s, [startData(s, "TravelScene") EXCEPT !.playerPosition = <<5, 22>>])
checkTriggers3(s) ==
  LET s0 == evaluated(s)
  IN  IF isInExitTrigger(s0.playerGridX, s0.playerGridY) THEN exitToTravel(s0) ELSE s0

\* triggerHellhoundAmbush leaving hellhound_ambush_triggered unset: a variant the properties
\* must tell apart
triggerHellhoundAmbush_keepsFlag(s) ==
  startDialogue([s EXCEPT !.isInDialogue = TRUE], 2, "Wilderness", Cb("ambush", ""))

\* TravelScene
triggerHellhoundAmbush(s) ==
  startDialogue([s EXCEPT !.gameFlags = @ \cup {AMB}, !.isInDialogue = TRUE], 2, "Wilderness", Cb("ambush", ""))

checkLocationProximity(s) ==
  LET location == getLocationAtPosition(s, s.playerGridX, s.playerGridY)
  IN  IF location # 0 /\ s.locations[location].type # "blocked"
        THEN promptLocationInteraction(s, s.locations[location])
        ELSE s

\* checkSpecialTriggers, and checkLocationProximity when it returns false
checkTriggersTravel(s) ==
  LET s0 == evaluated(s)
  IN  IF QS \in s0.gameFlags /\ AMB \notin s0.gameFlags /\ s0.playerGridY = 19
        THEN triggerHellhoundAmbush(s0)
        ELSE checkLocationProximity(s0)

\* moveComplete leaving isMoving set: a variant the properties must tell apart
moveComplete_keepsMoving(s) ==
  CASE s.scene = "IshetarScene1" -> checkTriggers1(s)
    [] s.scene = "IshetarScene2" -> checkTriggers(s)
    [] s.scene = "IshetarScene3" -> checkTriggers3(s)
    [] OTHER -> checkTriggersTravel(s)

\* the onComplete of the tween movePlayer adds
moveComplete(s) ==
  LET s1 == [s EXCEPT !.isMoving = FALSE]
  IN  CASE s.scene = "IshetarScene1" -> checkTriggers1(s1)
        [] s.scene = "IshetarScene2" -> checkTriggers(s1)
        [] s.scene = "IshetarScene3" -> checkTriggers3(s1)
        [] OTHER -> checkTriggersTravel(s1)

(***************************************************************************)
(* Delayed calls and the level-up overlay.                                 *)
(***************************************************************************)
Timer(k, n) == [k |-> k, n |-> n]

\* showLevelUpScreen(levelUps), n = levelUps.length; show() leaves the overlay waiting for input
showLevelUpScreen(s, n) == [s EXCEPT !.isInDialogue = TRUE, !.levelUpOverlay = n]

\* levelUpOverlay.handleInput(): the next hero, or the end and the overlay's onComplete
handleInput(s) ==
  IF s.levelUpOverlay > 1 THEN [s EXCEPT !.levelUpOverlay = @ - 1]
  ELSE [s EXCEPT !.levelUpOverlay = 0, !.isInDialogue = FALSE]

showHrothgarEndingDialogue(s) ==
  startDialogue([s EXCEPT !.isInDialogue = TRUE], 1, "Hrothgar", Cb("clear", ""))

\* IshetarScene3
showCongratulations(s) ==
  IF s.hasShownCongrats THEN s
  ELSE startDialogue([s EXCEPT !.hasShownCongrats = TRUE, !.isInDialogue = TRUE,
                               !.gameFlags = @ \cup {TUT}], 3, "THE END", Cb("clear", ""))

\* the callback of a delayed call
timerCallback(s, timer) ==
  CASE timer.k = "levelUp" -> showLevelUpScreen(s, timer.n)
    [] timer.k = "hrothgar" -> showHrothgarEndingDialogue(s)
    [] OTHER -> showCongratulations(s)

\* the 'resume' listener leaving pendingHrothgarDialogue set: a variant the properties must
\* tell apart
onResume_keepsPending(s) ==
  IF s.scene \in TownScenes /\ s.pendingHrothgarDialogue
    THEN [s EXCEPT !.timers = @ \cup {Timer("hrothgar", 0)},
                   !.scheduled = Append(@, Timer("hrothgar", 0))]
    ELSE s

\* the 'resume' listener the town scenes register in create
onResume(s) ==
  IF s.scene \in TownScenes /\ s.pendingHrothgarDialogue
    THEN [s EXCEPT !.pendingHrothgarDialogue = FALSE, !.timers = @ \cup {Timer("hrothgar", 0)},
                   !.scheduled = Append(@, Timer("hrothgar", 0))]
    ELSE s

\* the scene's 'resume' event: every create of the instance has registered one listener
\* (scene.events keeps its listeners over a shutdown), and each of them runs
RECURSIVE emitResume(_, _)
emitResume(s, listeners) ==
  IF listeners = 0 THEN s ELSE onResume(emitResume(s, listeners - 1))

(***************************************************************************)
(* update(): one frame.  keys is the keyboard as the frame sees it: esc    *)
(* and enter are JustDown, held is the set of direction keys that are      *)
(* down, just the direction keys among them that are JustDown.             *)
(***************************************************************************)
Max(a, b) == IF a > b THEN a ELSE b
Min(a, b) == IF a < b THEN a ELSE b

\* the if / else-if chain over cursors.left, right, up, down
heldDirection(held) ==
  IF "left" \in held THEN <<0 - 1, 0>>
  ELSE IF "right" \in held THEN <<1, 0>>
  ELSE IF "up" \in held THEN <<0, 0 - 1>>
  ELSE IF "down" \in held THEN <<0, 1>>
  ELSE <<0, 0>>

update(s, keys, env) ==
  IF s.levelUpOverlay > 0
    THEN (IF keys.enter THEN handleInput(s) ELSE s)
  ELSE IF keys.esc THEN launchMenu(scenePause(s), "")
  ELSE IF s.choiceMenuVisible
    THEN (IF "up" \in keys.just
            THEN [s EXCEPT !.choiceMenuSelectedIndex = Max(0, @ - 1)]
          ELSE IF "down" \in keys.just
            THEN [s EXCEPT !.choiceMenuSelectedIndex = Min(Len(s.choiceMenuOptions) - 1, @ + 1)]
          ELSE IF keys.enter THEN selectChoiceMenuOption(s, env)
          ELSE s)
  ELSE LET travel == s.scene = "TravelScene"
           s1 == IF keys.enter
                   THEN (IF travel THEN tryInteractTravel(s) ELSE tryInteract(s))
                   ELSE s
           d == heldDirection(keys.held)
       IN  IF ~s1.isInDialogue /\ ~s1.isMoving /\ keys.held # {}
             THEN (IF travel THEN movePlayerTravel(s1, d[1], d[2]) ELSE movePlayer(s1, d[1], d[2]))
             ELSE s1

Frames ==
  {k \in [esc : BOOLEAN, enter : BOOLEAN, held : SUBSET Dirs, just : SUBSET {"up", "down"}] :
     /\ Cardinality(k.held) <= MaxHeld
     /\ k.just \subseteq k.held
     /\ k.esc => (~k.enter /\ k.held = {})}

\* what the SaveManager answers during a frame
Envs ==
  [saveOk : BOOLEAN,
   previews : {[i \in 1..NumSlots |-> [slot |-> i, isEmpty |-> e[i]]] : e \in [1..NumSlots -> BOOLEAN]}]
NoEnv == [saveOk |-> TRUE, previews |-> [i \in 1..NumSlots |-> [slot |-> i, isEmpty |-> TRUE]]]

(***************************************************************************)
(* create(data).  A scene instance is reused: a field create does not      *)
(* assign keeps the value the last run left (left).                        *)
(***************************************************************************)
Blank(key) ==
  [scene |-> key, paused |-> FALSE, playerGridX |-> 0, playerGridY |-> 0,
   playerFacing |-> "front", isMoving |-> FALSE, isInDialogue |-> FALSE,
   npcs |-> <<>>, locations |-> <<>>, terrain |-> "", gameFlags |-> {},
   heroId |-> "", heroState |-> NoHeroState, inventory |-> "", chestStates |-> "",
   devMode |-> FALSE,
   triggeredEvents |-> {}, shownBlockedDialogue |-> {}, hasShownCongrats |-> FALSE,
   pendingHrothgarDialogue |-> FALSE, dialogueRenderer |-> NoDialogue,
   choiceMenuVisible |-> FALSE, choiceMenuOptions |-> <<>>,
   choiceMenuSelectedIndex |-> DeadIndex, choiceMenuCallback |-> NoCb,
   saveSlotPreviews |-> NoPreviews, selectedSaveSlot |-> 0, levelUpOverlay |-> 0,
   playTime |-> 0, sessionStartTime |-> 0, now |-> 0,
   timers |-> {}, tweens |-> <<>>, started |-> NoData,
   mapCache |-> mapCache,   \* the JSON cache outlives the scenes
   queued |-> NoData, evals |-> <<>>, moves |-> <<>>, handled |-> <<>>, saves |-> <<>>,
   completed |-> <<>>, choices |-> <<>>, opened |-> <<>>, launched |-> <<>>,
   scheduled |-> <<>>]

\* value || fallback for a value that is absent as ""
orElse(value, fallback) == IF value = "" THEN fallback ELSE value
\* SaveManager.createInitialHeroState(), and the literals {} for heroState and for chests
createInitialHeroState == HeroState("initial")
EmptyHeroState == HeroState("empty")
NoChests == "none"

levelUpTimer(data) == IF data.levelUps > 0 THEN {Timer("levelUp", data.levelUps)} ELSE {}

\* IshetarScene1.create
create1(data, left) ==
  [Blank("IshetarScene1") EXCEPT
     !.devMode = data.devMode,
     !.heroId = orElse(data.heroId, "vicas"),
     !.heroState = IF data.hasSave THEN data.saveHeroState
                   ELSE IF data.hasHeroState THEN data.heroState
                   ELSE createInitialHeroState,
     !.inventory = IF data.hasSave THEN orElse(data.saveInventory, createDefaultInventory)
                   ELSE IF data.hasHeroState THEN orElse(data.inventory, createDefaultInventory)
                   ELSE createDefaultInventory,
     !.chestStates = IF data.hasSave THEN orElse(data.saveChests, NoChests)
                     ELSE IF data.hasHeroState THEN orElse(data.chests, NoChests)
                     ELSE NoChests,
     !.gameFlags = IF data.hasSave THEN data.saveFlags
                   ELSE IF data.hasHeroState
                     THEN (IF data.hasGameFlags THEN data.gameFlags ELSE {})
                   ELSE {},
     !.terrain = "ishetar",
     !.playTime = IF data.hasSave THEN data.savePlayTime
                  ELSE IF data.hasHeroState THEN data.playTime
                  ELSE 0,
     !.playerGridX = IF data.hasSave THEN data.savePos[1] ELSE TownPlayerStart[1],
     !.playerGridY = IF data.hasSave THEN data.savePos[2] ELSE TownPlayerStart[2],
     !.playerFacing = left.playerFacing,
     !.npcs = placeNPCs1,
     !.levelUpOverlay = left.levelUpOverlay,
     !.timers = levelUpTimer(data)]

\* heroState, inventory and chestStates as IshetarScene2.create and IshetarScene3.create
\* set them
townHeroState(data) ==
  IF data.hasHeroState THEN data.heroState
  ELSE IF data.hasSave /\ data.saveHeroState # NoHeroState THEN data.saveHeroState
  ELSE EmptyHeroState
townInventory(data) ==
  IF data.hasSave THEN orElse(data.saveInventory, createDefaultInventory)
  ELSE orElse(data.inventory, createDefaultInventory)
townChests(data) ==
  IF data.hasSave THEN orElse(data.saveChests, NoChests) ELSE orElse(data.chests, NoChests)

\* gameFlags as IshetarScene2.create and IshetarScene3.create set them
townFlags(data) ==
  IF data.hasGameFlags THEN data.gameFlags
  ELSE IF data.hasSave THEN data.saveFlags
  ELSE {}

\* playTime as IshetarScene2.create and IshetarScene3.create set it
townPlayTime(data) ==
  IF data.hasSave /\ data.playTime = 0 /\ data.savePlayTime # 0 THEN data.savePlayTime
  ELSE data.playTime

\* IshetarScene2.create unlocking the gate in the cached array: a variant the properties must
\* tell apart
create2_sharedTerrain(data, left) ==
  [Blank("IshetarScene2") EXCEPT
     !.heroId = orElse(data.heroId, "vicas"),
     !.heroState = townHeroState(data),
     !.inventory = townInventory(data),
     !.chestStates = townChests(data),
     !.devMode = data.devMode,
     !.gameFlags = townFlags(data),
     !.playTime = townPlayTime(data),
     !.terrain = "ishetar",
     !.mapCache = @ \cup NorthGateUnlock,
     !.playerGridX = left.playerGridX,
     !.playerGridY = left.playerGridY,
     !.playerFacing = left.playerFacing,
     !.npcs = placeNPCs2,
     !.levelUpOverlay = left.levelUpOverlay,
     !.timers = levelUpTimer(data)]

\* IshetarScene2.create
create2(data, left) ==
  [Blank("IshetarScene2") EXCEPT
     !.heroId = orElse(data.heroId, "vicas"),
     !.heroState = townHeroState(data),
     !.inventory = townInventory(data),
     !.chestStates = townChests(data),
     !.devMode = data.devMode,
     !.gameFlags = townFlags(data),
     !.playTime = townPlayTime(data),
     !.terrain = "ishetar_unlocked",
     !.playerGridX = left.playerGridX,
     !.playerGridY = left.playerGridY,
     !.playerFacing = left.playerFacing,
     !.npcs = placeNPCs2,
     !.levelUpOverlay = left.levelUpOverlay,
     !.timers = levelUpTimer(data)]

\* IshetarScene3.create
create3(data, left) ==
  [Blank("IshetarScene3") EXCEPT
     !.heroId = orElse(data.heroId, "vicas"),
     !.heroState = townHeroState(data),
     !.inventory = townInventory(data),
     !.chestStates = townChests(data),
     !.devMode = data.devMode,
     !.gameFlags = townFlags(data),
     !.playTime = townPlayTime(data),
     !.terrain = "ishetar",
     !.playerGridX = TownPlayerStart[1],
     !.playerGridY = TownPlayerStart[2],
     !.playerFacing = left.playerFacing,
     !.npcs = placeNPCs3,
     !.timers = {Timer("congrats", 0)}]

\* TravelScene.create
createTravel(data, left) ==
  [Blank("TravelScene") EXCEPT
     !.heroId = orElse(data.heroId, "vicas"),
     !.heroState = IF data.hasHeroState THEN data.heroState ELSE EmptyHeroState,
     !.inventory = orElse(data.inventory, createDefaultInventory),
     !.chestStates = orElse(data.chests, NoChests),
     !.devMode = data.devMode,
     !.gameFlags = IF data.hasGameFlags THEN data.gameFlags ELSE {},
     !.playTime = data.playTime,
     !.terrain = "travel",
     !.playerGridX = IF data.playerPosition # <<>> THEN data.playerPosition[1] ELSE TravelPlayerStart[1],
     !.playerGridY = IF data.playerPosition # <<>> THEN data.playerPosition[2] ELSE TravelPlayerStart[2],
     !.playerFacing = left.playerFacing,
     !.locations = placeLocationMarkers,
     !.levelUpOverlay = left.levelUpOverlay,
     !.timers = levelUpTimer(data)]

create(key, data, left) ==
  CASE key = "IshetarScene1" -> create1(data, left)
    [] key = "IshetarScene2" -> create2(data, left)
    [] key = "IshetarScene3" -> create3(data, left)
    [] OTHER -> createTravel(data, left)

\* values the fields create leaves alone can hold when a scene is started: the facing and
\* IshetarScene2's position of the instance's last run, and the level-up overlay that was
\* waiting for input when IshetarScene2 was left through the north gate
LeftAt(key) ==
  IF key = "IshetarScene2"
    THEN (({Scene2DefaultStart} \cup northGateTiles) \X {0}) \cup (northGateTiles \X (1..MaxLevelUps))
    ELSE {<<Scene2DefaultStart, 0>>}
Leftovers(key) ==
  {[playerFacing |-> f, playerGridX |-> q[1][1], playerGridY |-> q[1][2], levelUpOverlay |-> q[2]] :
     f \in Facings, q \in LeftAt(key)}

\* data with which BattleScene, ExploreScene and MenuScene start a scene of the model
SavePositions == {<<9, 4>>}
ReturnPositions == {<<>>, <<4, 13>>, <<6, 20>>, <<5, 19>>}
\* the hero, inventory and chests such a scene hands back with the party's state
Carried(data) ==
  [data EXCEPT !.heroId = "thump", !.inventory = "carried", !.chests = "opened"]
ExternalData(key) ==
  IF key = "TravelScene"
    THEN {[Carried(Data(key, "", f, n, p, TRUE)) EXCEPT !.hasGameFlags = f # {}] :
            f \in FlagProfiles, n \in 0..MaxLevelUps, p \in ReturnPositions}
  ELSE {[Data(key, "", {}, 0, <<>>, FALSE) EXCEPT !.hasGameFlags = FALSE]}
    \cup {Carried(Data(key, "", f, n, <<>>, TRUE)) :
            f \in IF key = "IshetarScene3" THEN {g \in FlagProfiles : HC \in g} ELSE FlagProfiles,
            n \in IF key = "IshetarScene3" THEN {0} ELSE 0..MaxLevelUps}

(***************************************************************************)
(* NarratorScene: the title scene with its list menus.  Selections are     *)
(* 0-based as in the code; a list's first entry is at index 0.             *)
(***************************************************************************)
modeOptions == <<"Player Mode", "Dev Mode">>
menuOptions == <<"New Game", "Continue">>
DevOption(sceneKey, variant) == [scene |-> sceneKey, variant |-> variant]
devSceneOptions ==
  <<DevOption("NarratorScene", ""), DevOption("IshetarScene1", ""),
    DevOption("IshetarScene2", ""), DevOption("IshetarScene3", ""),
    DevOption("TravelScene", "pre_quetzi"), DevOption("TravelScene", "post_quetzi"),
    DevOption("BattleScene", "south_gate"), DevOption("BattleScene", "hunting_paths"),
    DevOption("BattleScene", "quetzi_shrine"), DevOption("BattleScene", "hellhound_cave"),
    DevOption("BattleScene", "maple_tree"), DevOption("MenuScene", "")>>
introLines == <<"good", "name", "remember">>
noSaveLines == <<"sorry", "perhaps">>
openingLines == <<"tale", "welcome", "town", "thankfully", "begin">>

\* what SaveManager.load returns: null, or the saved game
heroes == <<"azrael", "lyra", "rooker", "thump", "vicas">>
NoSave ==
  [currentMap |-> "", flags |-> {}, pos |-> <<>>, playTime |-> 0, mainHero |-> "",
   heroState |-> NoHeroState, inventory |-> "", chests |-> ""]
SaveData ==
  {[currentMap |-> m, flags |-> f, pos |-> p, playTime |-> 0, mainHero |-> "lyra",
    heroState |-> HeroState("saved"), inventory |-> "carried", chests |-> "opened"] :
     m \in {"ishetar_town", "ishetar_town_post_battle", "ishetar_town_post_tutorial",
            "quetzi_shrine_exploration", "hunting_paths"},
     f \in {{}, {SG}}, p \in SavePositions}

\* one frame's keys that went down, and what the SaveManager answers in that frame
NarratorFrames ==
  [up : BOOLEAN, down : BOOLEAN, left : BOOLEAN, right : BOOLEAN,
   enter : BOOLEAN, delete : BOOLEAN, esc : BOOLEAN]
SlotPreviews == {p \in [1..NumSlots -> [slot : 1..NumSlots, isEmpty : BOOLEAN]] :
                   \A i \in 1..NumSlots : p[i].slot = i}
NarratorEnvs == [previews : SlotPreviews, load : SaveData \cup {NoSave}]
NoNarratorEnv == [previews |-> NoEnv.previews, load |-> NoSave]

\* the fields of the scene after the constructor; queued exists only while a handler runs
NarratorFields ==
  [currentPhase |-> "mode_select", modeSelection |-> 0, devSceneSelection |-> 0,
   menuSelection |-> 0, heroSelection |-> 0, saveSlotSelection |-> 0,
   saveSlotPreviews |-> NoPreviews, deleteConfirmSelection |-> 0, slotToDelete |-> 0,
   selectedHeroId |-> "azrael", dialogue |-> NoDialogue, queued |-> NoData,
   loads |-> <<>>,     \* slot of each SaveManager.load call the handler made
   deletes |-> <<>>]   \* slot of each SaveManager.delete call the handler made

showModeSelect(n) == [n EXCEPT !.currentPhase = "mode_select", !.modeSelection = 0]

startIntroDialogue(n) ==
  [n EXCEPT !.currentPhase = "intro",
            !.dialogue = [active |-> TRUE, remaining |-> Len(introLines), speaker |-> "Miss Tibbets",
                          onComplete |-> Cb("showMainMenu", "")]]

showDevSceneSelect(n) == [n EXCEPT !.currentPhase = "dev_scene_select", !.devSceneSelection = 0]

selectMode(n) ==
  LET selected == modeOptions[n.modeSelection + 1]
  IN  IF selected = "Player Mode" THEN startIntroDialogue(n)
      ELSE IF selected = "Dev Mode" THEN showDevSceneSelect(n)
      ELSE n

\* SaveManager.createHeroStateAtLevel(level)
createHeroStateAtLevel == HeroState("levelled")
Mock(data, withHero) ==
  [data EXCEPT !.devMode = TRUE, !.heroId = IF withHero THEN "vicas" ELSE "",
               !.heroState = IF data.hasHeroState THEN createHeroStateAtLevel ELSE NoHeroState]
generateMockData(option) ==
  CASE option.scene = "IshetarScene1" ->
         Mock([Data("IshetarScene1", "", {}, 0, <<>>, FALSE) EXCEPT !.hasGameFlags = FALSE], TRUE)
    [] option.scene = "IshetarScene2" -> Mock(Data("IshetarScene2", "", {SG}, 0, <<>>, TRUE), TRUE)
    [] option.scene = "IshetarScene3" ->
         Mock(Data("IshetarScene3", "", {SG, HC}, 0, <<>>, TRUE), TRUE)
    [] option.scene = "TravelScene" ->
         IF option.variant = "pre_quetzi"
           THEN Mock(Data("TravelScene", "", {SG}, 0, <<>>, TRUE), TRUE)
         ELSE Mock(Data("TravelScene", "", {SG, QS}, 0, <<>>, TRUE), TRUE)
    [] option.scene = "BattleScene" ->
         Mock([Data("BattleScene", "", {}, 0, <<>>, TRUE) EXCEPT !.battleMap = option.variant],
              FALSE)
    [] option.scene = "MenuScene" ->
         Mock([Data("MenuScene", "", {}, 0, <<>>, TRUE) EXCEPT !.hasGameFlags = FALSE], FALSE)
    [] OTHER -> Mock(Data(option.scene, "", {}, 0, <<>>, TRUE), TRUE)

selectDevScene(n) ==
  LET selected == devSceneOptions[n.devSceneSelection + 1]
  IN  IF selected.scene = "NarratorScene" THEN startIntroDialogue(n)
      ELSE [n EXCEPT !.queued = generateMockData(selected)]

cancelDevSceneSelect(n) == showModeSelect(n)

showMainMenu(n) == [n EXCEPT !.currentPhase = "menu", !.menuSelection = 0]

showHeroSelect(n) == [n EXCEPT !.currentPhase = "hero_select", !.heroSelection = 0]

startNewGame(n) ==
  [n EXCEPT !.currentPhase = "opening",
            !.dialogue = [active |-> TRUE, remaining |-> Len(openingLines), speaker |-> "Miss Tibbets",
                          onComplete |-> Cb("startTown", "")]]

selectHero(n) == startNewGame([n EXCEPT !.selectedHeroId = heroes[n.heroSelection + 1]])

narratorShowSaveSlotSelection(n) == [n EXCEPT !.currentPhase = "save_select", !.saveSlotSelection = 0]

hasSaves(previews) == \E i \in 1..Len(previews) : ~previews[i].isEmpty

continueGame(n, env) ==
  LET n1 == [n EXCEPT !.saveSlotPreviews = env.previews]
  IN  IF ~hasSaves(n1.saveSlotPreviews)
        THEN [n1 EXCEPT !.currentPhase = "intro",
                        !.dialogue = [active |-> TRUE, remaining |-> Len(noSaveLines),
                                      speaker |-> "Miss Tibbets",
                                      onComplete |-> Cb("showMainMenu", "")]]
      ELSE narratorShowSaveSlotSelection(n1)

selectMenuItem(n, env) ==
  LET selected == menuOptions[n.menuSelection + 1]
  IN  IF selected = "New Game" THEN showHeroSelect(n)
      ELSE IF selected = "Continue" THEN continueGame(n, env)
      ELSE n

\* selectSaveSlot loading whatever slot is highlighted: a variant the properties must tell apart
selectSaveSlot_loadsEmpty(n, env) ==
  LET selectedPreview == n.saveSlotPreviews[n.saveSlotSelection + 1]
      saveData == env.load
      n0 == [n EXCEPT !.loads = Append(@, selectedPreview.slot)]
  IN  IF saveData = NoSave THEN n0
      ELSE IF saveData.currentMap = "quetzi_shrine_exploration"
        THEN [n0 EXCEPT !.queued = [Data("TravelScene", "", saveData.flags, 0, <<4, 13>>, TRUE) EXCEPT
                                !.heroId = saveData.mainHero, !.heroState = saveData.heroState,
                                !.inventory = saveData.inventory, !.chests = saveData.chests,
                                !.playTime = saveData.playTime]]
      ELSE LET targetScene == IF saveData.currentMap = "ishetar_town_post_battle"
                                THEN "IshetarScene2"
                              ELSE IF saveData.currentMap = "ishetar_town_post_tutorial"
                                THEN "IshetarScene3"
                              ELSE "IshetarScene1"
           IN  [n0 EXCEPT !.queued = [Data(targetScene, "", {}, 0, <<>>, FALSE) EXCEPT
                                       !.hasGameFlags = FALSE, !.hasSave = TRUE,
                                       !.heroId = saveData.mainHero,
                                       !.saveMainHero = saveData.mainHero,
                                       !.saveHeroState = saveData.heroState,
                                       !.saveInventory = saveData.inventory,
                                       !.saveChests = saveData.chests,
                                       !.saveFlags = saveData.flags, !.savePos = saveData.pos,
                                       !.savePlayTime = saveData.playTime]]

selectSaveSlot(n, env) ==
  LET selectedPreview == n.saveSlotPreviews[n.saveSlotSelection + 1]
      saveData == env.load
      n0 == [n EXCEPT !.loads = Append(@, selectedPreview.slot)]
  IN  IF selectedPreview.isEmpty THEN n
      ELSE IF saveData = NoSave THEN n0
      ELSE IF saveData.currentMap = "quetzi_shrine_exploration"
        THEN [n0 EXCEPT !.queued = [Data("TravelScene", "", saveData.flags, 0, <<4, 13>>, TRUE) EXCEPT
                                !.heroId = saveData.mainHero, !.heroState = saveData.heroState,
                                !.inventory = saveData.inventory, !.chests = saveData.chests,
                                !.playTime = saveData.playTime]]
      ELSE LET targetScene == IF saveData.currentMap = "ishetar_town_post_battle"
                                THEN "IshetarScene2"
                              ELSE IF saveData.currentMap = "ishetar_town_post_tutorial"
                                THEN "IshetarScene3"
                              ELSE "IshetarScene1"
           IN  [n0 EXCEPT !.queued = [Data(targetScene, "", {}, 0, <<>>, FALSE) EXCEPT
                                       !.hasGameFlags = FALSE, !.hasSave = TRUE,
                                       !.heroId = saveData.mainHero,
                                       !.saveMainHero = saveData.mainHero,
                                       !.saveHeroState = saveData.heroState,
                                       !.saveInventory = saveData.inventory,
                                       !.saveChests = saveData.chests,
                                       !.saveFlags = saveData.flags, !.savePos = saveData.pos,
                                       !.savePlayTime = saveData.playTime]]

showDeleteConfirmation(n) ==
  LET selectedPreview == n.saveSlotPreviews[n.saveSlotSelection + 1]
  IN  IF selectedPreview.isEmpty THEN n
      ELSE [n EXCEPT !.slotToDelete = selectedPreview.slot, !.currentPhase = "delete_confirm",
                     !.deleteConfirmSelection = 1]

\* SaveManager.delete(slot) empties the slot; getAllSlotPreviews then reports it empty
confirmDelete(n) ==
  LET n1 == IF n.deleteConfirmSelection = 1
              THEN [n EXCEPT !.saveSlotPreviews[n.slotToDelete].isEmpty = TRUE,
                             !.deletes = Append(@, n.slotToDelete)]
            ELSE n
  IN  IF ~hasSaves(n1.saveSlotPreviews) THEN showMainMenu(n1) ELSE narratorShowSaveSlotSelection(n1)

cancelSaveSelection(n) == showMainMenu(n)

\* dialogueRenderer.advance() of the scene's own renderer
narratorAdvance(n) ==
  IF ~n.dialogue.active THEN n
  ELSE IF n.dialogue.remaining > 1 THEN [n EXCEPT !.dialogue.remaining = @ - 1]
  ELSE LET cb == n.dialogue.onComplete
           n1 == [n EXCEPT !.dialogue = NoDialogue]
       IN  IF cb.k = "showMainMenu" THEN showMainMenu(n1)
           ELSE [n1 EXCEPT !.queued =
                   [Data("IshetarScene1", "", {}, 0, <<>>, FALSE) EXCEPT
                      !.hasGameFlags = FALSE, !.heroId = n.selectedHeroId]]

\* the steps of update() in one phase run one after the other: each is its own if
updateModeSelect(n, keys) ==
  LET n1 == IF keys.up THEN [n EXCEPT !.modeSelection = Max(0, @ - 1)] ELSE n
      n2 == IF keys.down
              THEN [n1 EXCEPT !.modeSelection = Min(Len(modeOptions) - 1, @ + 1)] ELSE n1
  IN  IF keys.enter THEN selectMode(n2) ELSE n2

updateDevSceneSelect(n, keys) ==
  LET n1 == IF keys.up THEN [n EXCEPT !.devSceneSelection = Max(0, @ - 1)] ELSE n
      n2 == IF keys.down
              THEN [n1 EXCEPT !.devSceneSelection = Min(Len(devSceneOptions) - 1, @ + 1)] ELSE n1
      n3 == IF keys.enter THEN selectDevScene(n2) ELSE n2
  IN  IF keys.esc THEN cancelDevSceneSelect(n3) ELSE n3

updateMenu(n, keys, env) ==
  LET n1 == IF keys.up THEN [n EXCEPT !.menuSelection = Max(0, @ - 1)] ELSE n
      n2 == IF keys.down
              THEN [n1 EXCEPT !.menuSelection = Min(Len(menuOptions) - 1, @ + 1)] ELSE n1
  IN  IF keys.enter THEN selectMenuItem(n2, env) ELSE n2

updateHeroSelect(n, keys) ==
  LET n1 == IF keys.left
              THEN [n EXCEPT !.heroSelection = IF @ <= 2 THEN Max(0, @ - 1) ELSE Max(3, @ - 1)]
            ELSE n
      n2 == IF keys.right
              THEN [n1 EXCEPT !.heroSelection = IF @ <= 2 THEN Min(2, @ + 1) ELSE Min(4, @ + 1)]
            ELSE n1
      n3 == IF keys.down /\ n2.heroSelection <= 2
              THEN [n2 EXCEPT !.heroSelection = IF @ <= 1 THEN 3 ELSE 4]
            ELSE n2
      n4 == IF keys.up /\ n3.heroSelection >= 3 THEN [n3 EXCEPT !.heroSelection = 1] ELSE n3
  IN  IF keys.enter THEN selectHero(n4) ELSE n4

\* the save-slot list wrapping around at its ends: a variant the properties must tell apart
updateSaveSelect_wraps(n, keys, env) ==
  LET len == Len(n.saveSlotPreviews)
      n1 == IF keys.up THEN [n EXCEPT !.saveSlotSelection = (@ + len - 1) % len] ELSE n
      n2 == IF keys.down THEN [n1 EXCEPT !.saveSlotSelection = (@ + 1) % len] ELSE n1
      n3 == IF keys.enter THEN selectSaveSlot(n2, env) ELSE n2
      n4 == IF keys.delete THEN showDeleteConfirmation(n3) ELSE n3
  IN  IF keys.esc THEN cancelSaveSelection(n4) ELSE n4

updateSaveSelect(n, keys, env) ==
  LET n1 == IF keys.up THEN [n EXCEPT !.saveSlotSelection = Max(0, @ - 1)] ELSE n
      n2 == IF keys.down
              THEN [n1 EXCEPT !.saveSlotSelection = Min(Len(n1.saveSlotPreviews) - 1, @ + 1)]
            ELSE n1
      n3 == IF keys.enter THEN selectSaveSlot(n2, env) ELSE n2
      n4 == IF keys.delete THEN showDeleteConfirmation(n3) ELSE n3
  IN  IF keys.esc THEN cancelSaveSelection(n4) ELSE n4

updateDeleteConfirm(n, keys) ==
  LET n1 == IF keys.left THEN [n EXCEPT !.deleteConfirmSelection = 0] ELSE n
      n2 == IF keys.right THEN [n1 EXCEPT !.deleteConfirmSelection = 1] ELSE n1
      n3 == IF keys.enter THEN confirmDelete(n2) ELSE n2
  IN  IF keys.esc THEN narratorShowSaveSlotSelection(n3) ELSE n3

\* NarratorScene.update
narratorUpdate(n, keys, env) ==
  CASE n.currentPhase = "mode_select" -> updateModeSelect(n, keys)
    [] n.currentPhase = "dev_scene_select" -> updateDevSceneSelect(n, keys)
    [] n.currentPhase = "menu" -> updateMenu(n, keys, env)
    [] n.currentPhase = "hero_select" -> updateHeroSelect(n, keys)
    [] n.currentPhase = "save_select" -> updateSaveSelect(n, keys, env)
    [] n.currentPhase = "delete_confirm" -> updateDeleteConfirm(n, keys)
    [] OTHER -> IF keys.enter THEN narratorAdvance(n) ELSE n

\* NarratorScene.create
narratorCreate == showModeSelect(NarratorFields)

\* fields that are assigned again before they are next read hold a fixed value
NarratorSettle(n) ==
  LET phase == n.currentPhase
      slots == phase \in {"save_select", "delete_confirm"}
  IN  [n EXCEPT !.modeSelection = IF phase = "mode_select" THEN @ ELSE DeadIndex,
                !.devSceneSelection = IF phase = "dev_scene_select" THEN @ ELSE DeadIndex,
                !.menuSelection = IF phase = "menu" THEN @ ELSE DeadIndex,
                !.heroSelection = IF phase = "hero_select" THEN @ ELSE DeadIndex,
                !.saveSlotSelection = IF slots THEN @ ELSE DeadIndex,
                !.saveSlotPreviews = IF slots THEN @ ELSE NoPreviews,
                !.deleteConfirmSelection = IF phase = "delete_confirm" THEN @ ELSE DeadIndex,
                !.slotToDelete = IF phase = "delete_confirm" THEN @ ELSE 0,
                !.selectedHeroId = IF phase = "opening" THEN @ ELSE "azrael",
                !.loads = <<>>, !.deletes = <<>>]
\* the scene has been shut down
NarratorGone == NarratorSettle([NarratorFields EXCEPT !.currentPhase = "gone"])

(***************************************************************************)
(* The entry point (main.ts) and PreloadScene.create.                      *)
(***************************************************************************)
\* urlParams.get(name) of a parameter the URL does not have
NoParam == "null"
\* the URL's parameters: editor (absent, 'true' or a map name), the four test flags being
\* 'true' or not, and map
UrlParams ==
  [editor : {NoParam, "true", "ishetar_town"}, menu : BOOLEAN, levelup : BOOLEAN,
   battle : BOOLEAN, travel : BOOLEAN, map : {NoParam, "south_gate"}]
NoUrl ==
  [editor |-> NoParam, menu |-> FALSE, levelup |-> FALSE, battle |-> FALSE, travel |-> FALSE,
   map |-> NoParam]
NoRegistry ==
  [battleTestMode |-> FALSE, battleMap |-> "", travelTestMode |-> FALSE, menuTestMode |-> FALSE,
   editorMap |-> "", levelUpTestMode |-> FALSE]
\* before the entry point has run
NoBoot == [url |-> NoUrl, scenes |-> <<>>, registry |-> NoRegistry, launchButton |-> FALSE]

\* main.ts: the scene list of the game configuration
configScenes(url) ==
  IF url.editor # NoParam THEN <<"TerrainEditorScene">>
  ELSE IF url.menu THEN <<"BootScene", "PreloadScene", "MenuScene">>
  ELSE IF url.levelup THEN <<"BootScene", "PreloadScene", "IshetarScene1", "MenuScene">>
  ELSE IF url.battle THEN <<"BootScene", "PreloadScene", "BattleScene", "IshetarScene2", "MenuScene">>
  ELSE IF url.travel
    THEN <<"BootScene", "PreloadScene", "TravelScene", "BattleScene", "ExploreScene",
           "IshetarScene2", "MenuScene">>
  ELSE <<"BootScene", "PreloadScene", "TitleScene", "NarratorScene", "IshetarScene1",
         "IshetarScene2", "TravelScene", "BattleScene", "ExploreScene", "IshetarScene3",
         "MenuScene">>

\* main.ts: what the entry point stores in the registry
setRegistry(url) ==
  [battleTestMode |-> url.battle,
   battleMap |-> IF ~url.battle THEN ""
                 ELSE IF url.map = NoParam THEN "hellhound_cave" ELSE url.map,
   travelTestMode |-> url.travel,
   menuTestMode |-> url.menu,
   editorMap |-> IF url.editor \notin {NoParam, "true"} THEN url.editor ELSE "",
   levelUpTestMode |-> url.levelup]

\* PreloadScene.create: the scene.start of the test mode, NoData for the launch button
preloadCreate(registry) ==
  IF registry.levelUpTestMode
    THEN [Data("IshetarScene1", "PreloadScene", {}, 0, <<>>, FALSE) EXCEPT
            !.hasGameFlags = FALSE, !.heroId = "vicas"]
  ELSE IF registry.menuTestMode
    THEN [Data("MenuScene", "PreloadScene", {}, 0, <<>>, TRUE) EXCEPT
            !.hasGameFlags = FALSE, !.heroState = HeroState("test"), !.inventory = "test"]
  ELSE IF registry.battleTestMode
    THEN [Data("BattleScene", "PreloadScene", {}, 0, <<>>, TRUE) EXCEPT
            !.hasGameFlags = FALSE, !.heroId = "vicas", !.devMode = TRUE,
            !.battleMap = orElse(registry.battleMap, "south_gate"),
            !.heroState = HeroState("test"), !.inventory = "test"]
  ELSE IF registry.travelTestMode
    THEN [Data("TravelScene", "PreloadScene", {}, 0, <<>>, FALSE) EXCEPT
            !.hasGameFlags = FALSE, !.heroId = "vicas"]
  ELSE NoData

\* the keys of the scenes the game configuration registered
Registered == {boot.scenes[i] : i \in 1..Len(boot.scenes)}

(***************************************************************************)
(* The state machine.                                                      *)
(***************************************************************************)
\* fields that are assigned again before they are next read hold a fixed value
Settle(r) ==
  LET menu == r.choiceMenuVisible
      slots == menu /\ r.choiceMenuCallback.k = "slotChoice"
      slot == \/ r.dialogueRenderer.onComplete.k = "overwrite"
              \/ (menu /\ r.choiceMenuCallback.k = "overwriteChoice")
  IN  [r EXCEPT !.choiceMenuOptions = IF menu THEN @ ELSE <<>>,
                !.choiceMenuCallback = IF menu THEN @ ELSE NoCb,
                !.choiceMenuSelectedIndex = IF menu THEN @ ELSE DeadIndex,
                !.saveSlotPreviews = IF slots THEN @ ELSE NoPreviews,
                !.selectedSaveSlot = IF slot THEN @ ELSE 0]

Set(r) ==
  /\ scene' = r.scene
  /\ paused' = r.paused
  /\ playerGridX' = r.playerGridX
  /\ playerGridY' = r.playerGridY
  /\ playerFacing' = r.playerFacing
  /\ isMoving' = r.isMoving
  /\ isInDialogue' = r.isInDialogue
  /\ npcs' = r.npcs
  /\ locations' = r.locations
  /\ terrain' = r.terrain
  /\ gameFlags' = r.gameFlags
  /\ heroId' = r.heroId
  /\ heroState' = r.heroState
  /\ inventory' = r.inventory
  /\ chestStates' = r.chestStates
  /\ devMode' = r.devMode
  /\ triggeredEvents' = r.triggeredEvents
  /\ shownBlockedDialogue' = r.shownBlockedDialogue
  /\ hasShownCongrats' = r.hasShownCongrats
  /\ pendingHrothgarDialogue' = r.pendingHrothgarDialogue
  /\ dialogueRenderer' = r.dialogueRenderer
  /\ choiceMenuVisible' = r.choiceMenuVisible
  /\ choiceMenuOptions' = r.choiceMenuOptions
  /\ choiceMenuSelectedIndex' = r.choiceMenuSelectedIndex
  /\ choiceMenuCallback' = r.choiceMenuCallback
  /\ saveSlotPreviews' = r.saveSlotPreviews
  /\ selectedSaveSlot' = r.selectedSaveSlot
  /\ levelUpOverlay' = r.levelUpOverlay
  /\ playTime' = r.playTime
  /\ sessionStartTime' = r.sessionStartTime
  /\ timers' = r.timers
  /\ tweens' = r.tweens
  /\ started' = r.started
  /\ mapCache' = r.mapCache
  /\ narrator' = NarratorGone
  /\ boot' = boot

\* the handler has returned r: a queued scene.start shuts the scene down (its tweens and
\* delayed calls with it) and creates the target; a scene outside the model just runs
Commit(r) ==
  IF r.queued.key \in GridScenes
    THEN \E left \in Leftovers(r.queued.key) : Set(create(r.queued.key, r.queued, left))
  ELSE IF r.queued.key # ""
    THEN Set([Blank(r.queued.key) EXCEPT !.started = r.queued])
  ELSE Set(Settle(r))

Running == scene \in GridScenes /\ ~paused

\* the times a handler of the running scene can run at
Nows == {now \in sessionStartTime..MaxTime : playTime + (now - sessionStartTime) <= MaxTime}
\* the running scene as a handler that runs at one of these times finds it
Clocked == {[Cur EXCEPT !.now = now] : now \in Nows}

\* one frame of the running scene
Update ==
  /\ Running
  /\ \E keys \in Frames :
       \E env \in IF choiceMenuVisible /\ keys.enter THEN Envs ELSE {NoEnv} :
         \E s \in Clocked : Commit(update(s, keys, env))

\* the move tween completes: its 150 ms have passed, so the 100 ms delayed call that create
\* sets before any move can start has fired (a paused scene stops both clocks)
TweenComplete ==
  /\ Running
  /\ tweens # <<>>
  /\ \A timer \in timers : timer.k # "levelUp"
  /\ \E s \in Clocked : Commit(moveComplete([s EXCEPT !.tweens = Tail(@)]))

\* a delayed call fires
TimerFire ==
  /\ Running
  /\ \E timer \in timers :
       \E s \in Clocked : Commit(timerCallback([s EXCEPT !.timers = @ \ {timer}], timer))

\* MenuScene closes and resumes the scene
Resume ==
  /\ scene \in GridScenes
  /\ paused
  /\ \E listeners \in 1..MaxCreates :
       \E s \in Clocked : Commit(emitResume([s EXCEPT !.paused = FALSE], listeners))

\* a scene outside the model starts one of the grid scenes
ExternalStart ==
  /\ scene \notin GridScenes \cup {"NarratorScene"}
  /\ \E key \in GridScenes :
       \E data \in ExternalData(key) :
         \E left \in Leftovers(key) : Set(create(key, data, left))

\* one frame of NarratorScene; a scene.start it issued is carried out when update returns
NarratorUpdate ==
  /\ scene = "NarratorScene"
  /\ \E keys \in NarratorFrames :
       \E env \in IF keys.enter /\ narrator.currentPhase \in {"menu", "save_select"}
                    THEN NarratorEnvs ELSE {NoNarratorEnv} :
         LET n == narratorUpdate(narrator, keys, env)
         IN  IF n.queued.key \in GridScenes
               THEN \E left \in Leftovers(n.queued.key) : Set(create(n.queued.key, n.queued, left))
             ELSE IF n.queued.key # ""
               THEN Set([Blank(n.queued.key) EXCEPT !.started = n.queued])
             ELSE /\ narrator' = NarratorSettle(n)
                  /\ UNCHANGED <<sceneVars, mapCache, boot>>

\* the game has booted into NarratorScene; no grid scene has run yet
Init ==
  /\ scene = "NarratorScene"
  /\ narrator = NarratorSettle(narratorCreate)
  /\ paused = FALSE
  /\ playerGridX = 0
  /\ playerGridY = 0
  /\ playerFacing = "front"
  /\ isMoving = FALSE
  /\ isInDialogue = FALSE
  /\ npcs = <<>>
  /\ locations = <<>>
  /\ terrain = ""
  /\ gameFlags = {}
  /\ heroId = ""
  /\ heroState = NoHeroState
  /\ inventory = ""
  /\ chestStates = ""
  /\ devMode = FALSE
  /\ triggeredEvents = {}
  /\ shownBlockedDialogue = {}
  /\ hasShownCongrats = FALSE
  /\ pendingHrothgarDialogue = FALSE
  /\ dialogueRenderer = NoDialogue
  /\ choiceMenuVisible = FALSE
  /\ choiceMenuOptions = <<>>
  /\ choiceMenuSelectedIndex = DeadIndex
  /\ choiceMenuCallback = NoCb
  /\ saveSlotPreviews = NoPreviews
  /\ selectedSaveSlot = 0
  /\ levelUpOverlay = 0
  /\ playTime = 0
  /\ sessionStartTime = 0
  /\ timers = {}
  /\ tweens = <<>>
  /\ started = NoData
  /\ mapCache = {}
  /\ boot = NoBoot
Next == Update \/ TweenComplete \/ TimerFire \/ Resume \/ ExternalStart \/ NarratorUpdate

Spec == Init /\ [][Next]_vars

(***************************************************************************)
(* create on its own: the scene manager is about to start a grid scene     *)
(* with a payload that holds any of the fields create reads (started is    *)
(* the data of that scene.start, scene is "" until create has run).        *)
(***************************************************************************)
PayloadFields == {"heroId", "heroState", "gameFlags", "playTime", "inventory", "chests", "devMode"}
\* the payload of a scene.start to key that provides the fields in given, and saveData or not
Payload(key, given, withSave) ==
  [Data(key, "", IF "gameFlags" \in given THEN {SG} ELSE {}, 0, <<>>, "heroState" \in given) EXCEPT
     !.hasGameFlags = "gameFlags" \in given,
     !.heroId = IF "heroId" \in given THEN "lyra" ELSE "",
     !.playTime = IF "playTime" \in given THEN MaxTime ELSE 0,
     !.inventory = IF "inventory" \in given THEN "carried" ELSE "",
     !.chests = IF "chests" \in given THEN "opened" ELSE "",
     !.devMode = "devMode" \in given,
     !.hasSave = withSave,
     !.saveMainHero = IF withSave THEN "rooker" ELSE "",
     !.saveHeroState = IF withSave THEN HeroState("saved") ELSE NoHeroState,
     !.saveFlags = IF withSave THEN {SG, HP} ELSE {},
     !.savePos = IF withSave THEN <<9, 4>> ELSE <<>>,
     !.savePlayTime = IF withSave THEN MaxTime ELSE 0,
     !.saveInventory = IF withSave THEN "stored" ELSE "",
     !.saveChests = IF withSave THEN "looted" ELSE ""]
Payloads ==
  {Payload(key, given, withSave) :
     key \in GridScenes, given \in SUBSET PayloadFields, withSave \in BOOLEAN}

CreateInit ==
  /\ started \in Payloads
  /\ mapCache = {}
  /\ boot = NoBoot
  /\ scene = ""
  /\ narrator = NarratorGone
  /\ paused = FALSE
  /\ playerGridX = 0
  /\ playerGridY = 0
  /\ playerFacing = "front"
  /\ isMoving = FALSE
  /\ isInDialogue = FALSE
  /\ npcs = <<>>
  /\ locations = <<>>
  /\ terrain = ""
  /\ gameFlags = {}
  /\ heroId = ""
  /\ heroState = NoHeroState
  /\ inventory = ""
  /\ chestStates = ""
  /\ devMode = FALSE
  /\ triggeredEvents = {}
  /\ shownBlockedDialogue = {}
  /\ hasShownCongrats = FALSE
  /\ pendingHrothgarDialogue = FALSE
  /\ dialogueRenderer = NoDialogue
  /\ choiceMenuVisible = FALSE
  /\ choiceMenuOptions = <<>>
  /\ choiceMenuSelectedIndex = DeadIndex
  /\ choiceMenuCallback = NoCb
  /\ saveSlotPreviews = NoPreviews
  /\ selectedSaveSlot = 0
  /\ levelUpOverlay = 0
  /\ playTime = 0
  /\ sessionStartTime = 0
  /\ timers = {}
  /\ tweens = <<>>

\* the scene manager runs create(data) of the scene that was started
Create ==
  /\ scene = ""
  /\ \E left \in Leftovers(started.key) : Set(create(started.key, started, left))

CreateSpec == CreateInit /\ [][Create]_vars

(***************************************************************************)
(* The start of the game: the page is loaded with some URL parameters, the *)
(* entry point makes the game, the engine starts the first scene of the    *)
(* list, and PreloadScene starts the scene of the test mode.  scene.start  *)
(* of a key that is not registered stops the running scene and starts      *)
(* nothing (scene is "" then); started is the data of the last scene.start.*)
(***************************************************************************)
\* what a scene.start leaves untouched in this part of the game
bootKept ==
  <<paused, playerGridX, playerGridY, playerFacing, isMoving, isInDialogue, npcs, locations,
    terrain, gameFlags, heroId, heroState, inventory, chestStates, devMode, triggeredEvents,
    shownBlockedDialogue, hasShownCongrats, pendingHrothgarDialogue, dialogueRenderer,
    choiceMenuVisible, choiceMenuOptions, choiceMenuSelectedIndex, choiceMenuCallback,
    saveSlotPreviews, selectedSaveSlot, levelUpOverlay, playTime, sessionStartTime, timers,
    tweens, narrator, mapCache>>

BootInit ==
  /\ boot \in {[NoBoot EXCEPT !.url = url] : url \in UrlParams}
  /\ started = NoData
  /\ mapCache = {}
  /\ scene = ""
  /\ narrator = NarratorGone
  /\ paused = FALSE
  /\ playerGridX = 0
  /\ playerGridY = 0
  /\ playerFacing = "front"
  /\ isMoving = FALSE
  /\ isInDialogue = FALSE
  /\ npcs = <<>>
  /\ locations = <<>>
  /\ terrain = ""
  /\ gameFlags = {}
  /\ heroId = ""
  /\ heroState = NoHeroState
  /\ inventory = ""
  /\ chestStates = ""
  /\ devMode = FALSE
  /\ triggeredEvents = {}
  /\ shownBlockedDialogue = {}
  /\ hasShownCongrats = FALSE
  /\ pendingHrothgarDialogue = FALSE
  /\ dialogueRenderer = NoDialogue
  /\ choiceMenuVisible = FALSE
  /\ choiceMenuOptions = <<>>
  /\ choiceMenuSelectedIndex = DeadIndex
  /\ choiceMenuCallback = NoCb
  /\ saveSlotPreviews = NoPreviews
  /\ selectedSaveSlot = 0
  /\ levelUpOverlay = 0
  /\ playTime = 0
  /\ sessionStartTime = 0
  /\ timers = {}
  /\ tweens = <<>>

\* main.ts runs: new Phaser.Game(config) starts the first scene of the list
Main ==
  /\ boot.scenes = <<>>
  /\ boot' = [boot EXCEPT !.scenes = configScenes(boot.url), !.registry = setRegistry(boot.url)]
  /\ scene' = Head(configScenes(boot.url))
  /\ UNCHANGED <<started, bootKept>>

\* BootScene hands over to PreloadScene
BootSceneCreate ==
  /\ scene = "BootScene"
  /\ scene' = "PreloadScene"
  /\ UNCHANGED <<started, boot, bootKept>>

\* PreloadScene.create, once the assets are loaded
PreloadCreate ==
  /\ scene = "PreloadScene" /\ ~boot.launchButton
  /\ LET data == preloadCreate(boot.registry)
     IN  IF data = NoData
           THEN /\ boot' = [boot EXCEPT !.launchButton = TRUE]
                /\ UNCHANGED <<scene, started>>
         ELSE /\ started' = data
              /\ scene' = IF data.key \in Registered THEN data.key ELSE ""
              /\ boot' = boot
  /\ UNCHANGED bootKept

\* the player clicks the launch button
LaunchClick ==
  /\ scene = "PreloadScene" /\ boot.launchButton
  /\ started' = [NoData EXCEPT !.key = "TitleScene", !.from = "PreloadScene"]
  /\ scene' = IF "TitleScene" \in Registered THEN "TitleScene" ELSE ""
  /\ boot' = [boot EXCEPT !.launchButton = FALSE]
  /\ UNCHANGED bootKept

BootNext == Main \/ BootSceneCreate \/ PreloadCreate \/ LaunchClick

BootSpec == BootInit /\ [][BootNext]_vars

(***************************************************************************)
(* Properties.                                                             *)
(***************************************************************************)
InGridScene == scene \in GridScenes
InTown == scene \in TownScenes
Pos == <<playerGridX, playerGridY>>
NpcTiles == {<<npcs[i].gridX, npcs[i].gridY>> : i \in 1..Len(npcs)}
GridWidth == IF scene = "TravelScene" THEN TravelGridSize ELSE TownGridWidth
GridHeight == IF scene = "TravelScene" THEN TravelGridSize ELSE TownGridHeight

\* C1: in the town scenes and in TravelScene the player's grid position is always inside
\* the grid, on a tile whose terrain value is not 2 and, in a town scene, on no tile an NPC
\* or party hero occupies.
C1_PositionIsPassable ==
  InGridScene =>
    /\ playerGridX >= 0 /\ playerGridX < GridWidth
    /\ playerGridY >= 0 /\ playerGridY < GridHeight
    /\ terrainValue(terrain, playerGridX, playerGridY) # 2
    /\ (InTown => Pos \notin NpcTiles)

\* the player has walked up to the shrine: the tile to the left is open terrain with an NPC
C1_Witness ==
  /\ scene = "IshetarScene2"
  /\ Pos = <<9, 4>>
  /\ playerFacing = "left"
  /\ ~isMoving
  /\ <<8, 4>> \in NpcTiles /\ terrainValue(terrain, 8, 4) = 0

dialogueActive == dialogueRenderer.active
overlayWaiting == levelUpOverlay > 0
\* how many of the four input-capturing activities are in progress
ActiveCount ==
  (IF isMoving THEN 1 ELSE 0) + (IF dialogueActive THEN 1 ELSE 0)
    + (IF choiceMenuVisible THEN 1 ELSE 0) + (IF overlayWaiting THEN 1 ELSE 0)

\* C2: at most one of a move animation, a dialogue session, a visible choice menu and the
\* level-up overlay is active; in particular none of the others is active while isMoving.
C2_AtMostOneActive == InGridScene => ActiveCount <= 1

\* frames in which only direction keys are pressed
DirectionFrames == {k \in Frames : ~k.esc /\ ~k.enter /\ k.held # {}}

\* the record r leaves everything movement is made of as it is now
MovementUnchanged(r) ==
  /\ r.playerGridX = playerGridX /\ r.playerGridY = playerGridY
  /\ r.playerFacing = playerFacing
  /\ r.isMoving = isMoving
  /\ r.tweens = tweens

\* C3: while a move animation is in progress, a dialogue is active, a choice menu is visible
\* or the level-up overlay waits for input, a frame with direction keys leaves the position,
\* the facing and isMoving unchanged and starts no animation.
C3_DirectionKeyIsNoOp ==
  (Running /\ (isMoving \/ dialogueActive \/ choiceMenuVisible \/ overlayWaiting)) =>
    \A k \in DirectionFrames : MovementUnchanged(update(Cur, k, NoEnv))

\* the four unit steps a move attempt can ask for
Steps == {<<0 - 1, 0>>, <<1, 0>>, <<0, 0 - 1>>, <<0, 1>>}
\* nothing captures input: no animation, no modal session
Idle ==
  /\ Running
  /\ ~isMoving /\ ~isInDialogue /\ ~dialogueActive /\ ~choiceMenuVisible /\ ~overlayWaiting

\* movePlayer(dx, dy) of the running scene, applied to the current state
attemptMove(d) ==
  IF scene = "TravelScene" THEN movePlayerTravel(Cur, d[1], d[2]) ELSE movePlayer(Cur, d[1], d[2])

InBlockedLocation(x, y) ==
  \E i \in 1..Len(locations) :
    /\ locations[i].type = "blocked"
    /\ x >= locations[i].bounds.x1 /\ x <= locations[i].bounds.x2
    /\ y >= locations[i].bounds.y1 /\ y <= locations[i].bounds.y2

\* the conditions under which a target tile may be entered
TargetOk(x, y) ==
  /\ x >= 0 /\ x < GridWidth /\ y >= 0 /\ y < GridHeight
  /\ terrainValue(terrain, x, y) \in {0, 1}
  /\ (InTown => <<x, y>> \notin NpcTiles)
  /\ (scene = "TravelScene" => ~InBlockedLocation(x, y))

\* r is the state with a move to (x, y) just accepted
Accepted(r, x, y) ==
  /\ r.isMoving
  /\ r.tweens = Append(tweens, <<x, y>>)
  /\ r.playerGridX = x /\ r.playerGridY = y

\* the direction the frame asks for: the first of left, right, up, down that is held
FirstHeld(held) ==
  IF "left" \in held THEN <<0 - 1, 0>> ELSE IF "right" \in held THEN <<1, 0>>
  ELSE IF "up" \in held THEN <<0, 0 - 1>> ELSE <<0, 1>>

\* C4: with the scene idle a move attempt (dx, dy) is accepted exactly when the target tile is
\* in the grid, has terrain 0 or 1, holds no NPC (towns) and lies in no blocked location
\* (TravelScene); an accepted move changes the position by exactly (dx, dy), a rejected one
\* not at all, and a frame with several direction keys held moves one tile along one axis.
C4_AcceptedIffTargetOk ==
  Idle =>
    /\ \A d \in Steps :
         LET x == playerGridX + d[1]
             y == playerGridY + d[2]
             r == attemptMove(d)
         IN  /\ TargetOk(x, y) <=> Accepted(r, x, y)
             /\ ~TargetOk(x, y) =>
                  (r.playerGridX = playerGridX /\ r.playerGridY = playerGridY /\ r.tweens = tweens)
    /\ \A k \in DirectionFrames :
         LET d == FirstHeld(k.held)
             r == update(Cur, k, NoEnv)
         IN  /\ <<r.playerGridX - playerGridX, r.playerGridY - playerGridY>> \in {d, <<0, 0>>}
             /\ r.isMoving <=> TargetOk(playerGridX + d[1], playerGridY + d[2])

\* a move onto a tile of terrain value 1 has been accepted and is being animated
C4_Witness ==
  /\ InGridScene
  /\ isMoving /\ tweens = <<Pos>>
  /\ terrainValue(terrain, playerGridX, playerGridY) = 1

\* the facing a step turns the player to
FacingOfStep(d) ==
  IF d = <<1, 0>> THEN "right" ELSE IF d = <<0 - 1, 0>> THEN "left"
  ELSE IF d = <<0, 1>> THEN "front" ELSE "back"

\* a rejected attempt turns the player and changes nothing else of the movement state
RejectedTurnsOnly(r, d) ==
  /\ r.playerFacing = FacingOfStep(d)
  /\ r.playerGridX = playerGridX /\ r.playerGridY = playerGridY
  /\ r.isMoving = FALSE /\ r.tweens = tweens
  /\ r.evals = <<>>

\* the confirm key pressed in the state r
confirm(r) == IF r.scene = "TravelScene" THEN tryInteractTravel(r) ELSE tryInteract(r)

\* r2 shows a dialogue of one of the speakers, or none if there is no speaker
TalksTo(r2, speakers) ==
  IF speakers = {} THEN ~r2.dialogueRenderer.active
  ELSE r2.dialogueRenderer.active /\ r2.isInDialogue /\ r2.dialogueRenderer.speaker \in speakers

NpcsOn(x, y) == {npcs[i].id : i \in {j \in 1..Len(npcs) : npcs[j].gridX = x /\ npcs[j].gridY = y}}
LocationsOn(x, y) ==
  {locations[i].id : i \in {j \in 1..Len(locations) :
     /\ x >= locations[j].bounds.x1 /\ x <= locations[j].bounds.x2
     /\ y >= locations[j].bounds.y1 /\ y <= locations[j].bounds.y2}}

SameRun == InGridScene /\ scene' = scene

\* C6: isMoving is true exactly while one move animation is outstanding: it becomes true
\* exactly when a move is accepted (the step that adds the tween), stays true while that tween
\* is outstanding, during which no other move is accepted, and becomes false in the step that
\* completes the tween; there is never more than one tween.
C6_MovingExactlyDuringAnimation ==
  /\ [](InGridScene => ((isMoving <=> tweens # <<>>) /\ Len(tweens) <= 1))
  /\ [][SameRun =>
          /\ (~isMoving /\ isMoving') => (tweens = <<>> /\ tweens' = <<<<playerGridX', playerGridY'>>>>)
          /\ (isMoving /\ isMoving') => tweens' = tweens
          /\ (isMoving /\ ~isMoving') => (tweens' = <<>> /\ TweenComplete)]_vars

\* in IshetarScene3 a move from the start tile has been accepted and has completed
C6_Witness ==
  /\ scene = "IshetarScene3"
  /\ Pos = <<24, 12>>
  /\ ~isMoving /\ tweens = <<>>

\* the handlers other than the tween's onComplete, applied to the current state
OtherHandlerResults ==
  {update(Cur, k, env) : k \in Frames, env \in IF choiceMenuVisible THEN Envs ELSE {NoEnv}}
    \cup {timerCallback(Cur, timer) : timer \in timers}
    \cup {onResume(Cur)}

\* C7 as claimed: every accepted move has its triggers evaluated exactly once, by its tween's
\* onComplete, which sees isMoving false and the position equal to the move's target; no other
\* handler evaluates triggers; no tween goes away without its onComplete having run.
C7_TriggersOncePerAcceptedMove ==
  /\ []((Running /\ tweens # <<>>) =>
          LET r == moveComplete([Cur EXCEPT !.tweens = Tail(@)])
          IN  /\ Len(r.evals) = 1
              /\ ~r.evals[1].isMoving
              /\ <<r.evals[1].x, r.evals[1].y>> = Head(tweens))
  /\ [](InGridScene => \A r \in OtherHandlerResults : r.evals = <<>>)
  /\ [][(InGridScene /\ tweens # <<>> /\ tweens' = <<>>) => TweenComplete]_vars

\* C8 as claimed: inside a run of a scene the grid position changes only in the step that
\* completes a move.
C8_PositionChangesOnCompletion ==
  [][(SameRun /\ <<playerGridX', playerGridY'>> # Pos) => (isMoving /\ ~isMoving')]_vars

\* C8, amended: inside a run of a scene the grid position changes only in the step that accepts
\* a move, by one tile, to the target of the tween it adds; for the whole animation every
\* handler sees the target tile, and the completing step leaves the position as it is.
C8_PositionChangesOnAcceptance ==
  /\ []((InGridScene /\ isMoving) => tweens = <<Pos>>)
  /\ [][(SameRun /\ <<playerGridX', playerGridY'>> # Pos) =>
          /\ ~isMoving /\ isMoving'
          /\ tweens' = <<<<playerGridX', playerGridY'>>>>
          /\ <<playerGridX' - playerGridX, playerGridY' - playerGridY>> \in Steps]_vars

\* the move from (10,4) to (9,4) is still being animated and a confirm press has already
\* opened the dialogue of the shrine, which is adjacent to the target tile only
C8_Witness ==
  /\ InTown
  /\ isMoving /\ Pos = <<9, 4>> /\ playerFacing = "left"
  /\ dialogueActive /\ dialogueRenderer.speaker = "pelor"

\* the battle triggers of the town map whose completion flag is set in the flags
CompletedBattleTriggers(flags) ==
  {i \in 1..Len(MapTriggers) :
     /\ MapTriggers[i].type = "battle"
     /\ battleCompleteFlag(MapTriggers[i].battleMap) \in flags}

\* C9: in IshetarScene1 a battle trigger whose completion flag is set is never handled: the
\* onComplete of a move passes no such trigger to handleTrigger, no cutscene dialogue of such a
\* battle is open, and BattleScene is never started from the scene with that battle's flag set.
C9_CompletedBattleNeverHandled ==
  /\ (scene = "IshetarScene1" /\ Running /\ tweens # <<>>) =>
       LET r == moveComplete([Cur EXCEPT !.tweens = Tail(@)])
       IN  \A i \in CompletedBattleTriggers(gameFlags) :
             /\ \A n \in 1..Len(r.handled) : r.handled[n] # MapTriggers[i].id
             /\ ~(r.queued.key = "BattleScene" /\ r.queued.battleMap = MapTriggers[i].battleMap)
  /\ (scene = "IshetarScene1" /\ dialogueActive /\ dialogueRenderer.onComplete.k = "battle") =>
       battleCompleteFlag(dialogueRenderer.onComplete.arg) \notin gameFlags
  /\ (scene = "BattleScene" /\ started.from = "IshetarScene1") =>
       battleCompleteFlag(started.battleMap) \notin started.gameFlags

\* the player has walked onto a tile of the south gate trigger with the battle's flag set,
\* the move has completed and nothing has opened
C9_Witness ==
  /\ scene = "IshetarScene1"
  /\ Pos \in MapTriggers[1].tiles
  /\ battleCompleteFlag(MapTriggers[1].battleMap) \in gameFlags
  /\ ~isMoving /\ ~isInDialogue /\ ~dialogueActive

\* the battle maps of the travel map's battle locations
LocationBattleMaps ==
  {placeLocationMarkers[i].battleMap :
     i \in {j \in 1..Len(placeLocationMarkers) : placeLocationMarkers[j].type = "battle"}}

\* C10 as claimed: TravelScene never starts BattleScene for the battle map of one of its battle
\* locations while that battle's completion flag is set.
C10_CompletedLocationNeverRestarts ==
  (/\ scene = "BattleScene"
   /\ started.from = "TravelScene"
   /\ started.battleMap \in LocationBattleMaps) =>
     battleCompleteFlag(started.battleMap) \notin started.gameFlags

\* the location the player stands in is the first of the list with the position in its bounds
FirstLocationHere(i) ==
  /\ isWithinBounds(playerGridX, playerGridY, locations[i].bounds)
  /\ \A j \in 1..(i - 1) : ~isWithinBounds(playerGridX, playerGridY, locations[j].bounds)
\* the trigger of the town map can fire on the tile the player stands on
EligibleTrigger(i) ==
  /\ MapTriggers[i].id \notin triggeredEvents
  /\ i \notin CompletedBattleTriggers(gameFlags)
  /\ Pos \in MapTriggers[i].tiles
AmbushDue == QS \in gameFlags /\ AMB \notin gameFlags /\ playerGridY = 19

\* C11: the onComplete of a move runs at most one trigger handler, that of the first match in
\* declared order: IshetarScene1 passes to handleTrigger the first trigger of mapData.triggers
\* that has not fired since create, is no completed battle and has the position among its
\* tiles, and marks only that one as fired; TravelScene prompts the first location of the list
\* whose bounds (inclusive) contain the position unless it is blocked, and when the hellhound
\* ambush is due the ambush dialogue starts instead of any location prompt.
C11_FirstMatchIsHandled ==
  (Running /\ tweens # <<>>) =>
    LET r == moveComplete([Cur EXCEPT !.tweens = Tail(@)])
    IN  /\ scene = "IshetarScene1" =>
             /\ Len(r.handled) <= 1
             /\ \A i \in 1..Len(MapTriggers) :
                  (EligibleTrigger(i) /\ \A j \in 1..(i - 1) : ~EligibleTrigger(j)) =>
                    /\ r.handled = <<MapTriggers[i].id>>
                    /\ r.triggeredEvents = triggeredEvents \cup {MapTriggers[i].id}
             /\ (\A i \in 1..Len(MapTriggers) : ~EligibleTrigger(i)) =>
                  (r.handled = <<>> /\ r.triggeredEvents = triggeredEvents)
        /\ scene = "TravelScene" =>
             /\ AmbushDue =>
                  /\ r.dialogueRenderer.active /\ r.dialogueRenderer.speaker = "Wilderness"
                  /\ r.dialogueRenderer.onComplete = Cb("ambush", "")
                  /\ AMB \in r.gameFlags
             /\ ~AmbushDue =>
                  /\ r.gameFlags = gameFlags
                  /\ \A i \in 1..Len(locations) :
                       FirstLocationHere(i) =>
                         IF locations[i].type = "blocked"
                           THEN r.dialogueRenderer = dialogueRenderer
                           ELSE /\ r.dialogueRenderer.active /\ r.isInDialogue
                                /\ r.dialogueRenderer.speaker = locations[i].id
                  /\ (\A i \in 1..Len(locations) : ~FirstLocationHere(i)) =>
                       r.dialogueRenderer = dialogueRenderer

\* a move onto row 19, on a tile inside the maple tree's bounds, has completed with the
\* ambush due: the ambush warning is showing and not the location's prompt
C11_Witness ==
  /\ scene = "TravelScene"
  /\ Pos = <<5, 19>> /\ ~isMoving /\ tweens = <<>>
  /\ \E i \in 1..Len(locations) : FirstLocationHere(i) /\ locations[i].id = "maple_tree"
  /\ dialogueActive /\ dialogueRenderer.speaker = "Wilderness" /\ dialogueRenderer.remaining = 2

\* the blocked locations whose bounds contain the tile
BlockedLocationsOn(x, y) ==
  {i \in 1..Len(locations) :
     locations[i].type = "blocked" /\ isWithinBounds(x, y, locations[i].bounds)}
\* the attempt r was not accepted
NotAccepted(r) ==
  /\ r.playerGridX = playerGridX /\ r.playerGridY = playerGridY
  /\ r.isMoving = FALSE /\ r.tweens = tweens
\* the attempt r opened the warning of location i exactly if it had not been shown yet
WarnsOnce(r, i) ==
  IF locations[i].id \in shownBlockedDialogue
    THEN r.dialogueRenderer = dialogueRenderer /\ r.shownBlockedDialogue = shownBlockedDialogue
    ELSE /\ r.dialogueRenderer.active /\ r.isInDialogue
         /\ r.dialogueRenderer.speaker = locations[i].id
         /\ r.dialogueRenderer.remaining = locations[i].description
         /\ r.shownBlockedDialogue = shownBlockedDialogue \cup {locations[i].id}
\* shownBlockedDialogue is empty when TravelScene is created and, inside a run, grows only by
\* the id of a blocked location whose warning the same step opens
ShownSinceCreate ==
  [][/\ (scene' = "TravelScene" /\ scene # "TravelScene") => shownBlockedDialogue' = {}
     /\ (scene' = "TravelScene" /\ scene = "TravelScene"
           /\ shownBlockedDialogue' # shownBlockedDialogue) =>
          \E i \in 1..Len(locations) :
            /\ locations[i].type = "blocked"
            /\ locations[i].id \notin shownBlockedDialogue
            /\ shownBlockedDialogue' = shownBlockedDialogue \cup {locations[i].id}
            /\ dialogueRenderer'.active /\ dialogueRenderer'.speaker = locations[i].id]_vars

\* C12 as claimed: in TravelScene a move attempt whose target tile lies inside a blocked
\* location is never accepted, and it opens that location's warning dialogue exactly when no
\* attempt has opened it since the scene was created.
C12_BlockedWarnsOnFirstAttempt ==
  /\ []((scene = "TravelScene" /\ Idle) =>
          \A d \in Steps :
            \A i \in BlockedLocationsOn(playerGridX + d[1], playerGridY + d[2]) :
              LET r == attemptMove(d)
              IN  NotAccepted(r) /\ WarnsOnce(r, i))
  /\ ShownSinceCreate

\* C12, amended: the attempt is never accepted; it opens the warning, once per creation of the
\* scene, when the target tile is inside the grid and of walkable terrain, and opens nothing
\* when the passability test has already rejected the target.
C12_BlockedWarnsWhenWalkable ==
  /\ []((scene = "TravelScene" /\ Idle) =>
          \A d \in Steps :
            LET x == playerGridX + d[1]
                y == playerGridY + d[2]
                r == attemptMove(d)
            IN  \A i \in BlockedLocationsOn(x, y) :
                  /\ NotAccepted(r)
                  /\ IF isPassableTravel(Cur, x, y)
                       THEN WarnsOnce(r, i)
                       ELSE /\ r.dialogueRenderer = dialogueRenderer
                            /\ r.shownBlockedDialogue = shownBlockedDialogue)
  /\ ShownSinceCreate

\* the warning of the cliffs has been shown and dismissed, and the player stands idle in front
\* of them, where a second attempt can be made
C12_Witness ==
  /\ scene = "TravelScene" /\ Idle
  /\ Pos = <<6, 20>> /\ playerFacing = "front"
  /\ "cliffs" \in shownBlockedDialogue
  /\ BlockedLocationsOn(6, 21) # {}

\* the handler result r starts a scene or opens a dialogue session
StartsSomething(r) ==
  \/ r.queued.key # ""
  \/ (r.dialogueRenderer.active /\ r.dialogueRenderer # dialogueRenderer)

\* C13 as claimed: the onComplete of a move that lands on a tile of an exit or narrative
\* trigger starts a scene transition or a dialogue: TravelScene from the north gate of
\* IshetarScene2 and from the east gate of IshetarScene3, and a transition or a dialogue from
\* a trigger of type 'exit' or 'narrative' of the map data in IshetarScene1.
C13_ExitOrNarrativeStarts ==
  (Running /\ tweens # <<>>) =>
    LET r == moveComplete([Cur EXCEPT !.tweens = Tail(@)])
    IN  /\ (scene = "IshetarScene2" /\ Pos \in {<<13, 2>>, <<14, 2>>}) =>
             r.queued.key = "TravelScene"
        /\ (scene = "IshetarScene3" /\ Pos \in {<<25, 11>>, <<25, 12>>}) =>
             r.queued.key = "TravelScene"
        /\ scene = "IshetarScene1" =>
             \A i \in 1..Len(MapTriggers) :
               (/\ MapTriggers[i].type \in {"exit", "narrative"}
                /\ EligibleTrigger(i)
                /\ \A j \in 1..(i - 1) : ~EligibleTrigger(j)) => StartsSomething(r)

\* r is inside the chain of modals a shrine interaction opens: the shrine's dialogue, one of its
\* choice menus, the overwrite prompt or the dialogue that reports the result of the save
InShrineChain(r) ==
  /\ r.scene \in TownScenes
  /\ \/ r.choiceMenuVisible
     \/ /\ r.dialogueRenderer.active
        /\ \/ r.dialogueRenderer.onComplete.k \in {"shrine", "overwrite"}
           \/ r.dialogueRenderer.speaker = "Shrine"
\* frames with a confirm press, with what the SaveManager may answer in them
ConfirmFrames == {k \in Frames : k.enter}

\* C14: from the start of a shrine interaction until the last modal of its chain is dismissed
\* isInDialogue or choiceMenuVisible is true and no frame of direction keys changes the
\* position or starts an animation; the confirm press that dismisses the last modal leaves
\* both flags false, and from then on a direction key reaches movePlayer again.
C14_MovementSuspendedAcrossModals ==
  (Running /\ InShrineChain(Cur)) =>
    /\ isInDialogue \/ choiceMenuVisible
    /\ \A k \in DirectionFrames :
         LET r == update(Cur, k, NoEnv)
         IN  r.playerGridX = playerGridX /\ r.playerGridY = playerGridY /\ r.tweens = tweens
    /\ \A k \in ConfirmFrames : \A env \in Envs :
         LET r == update(Cur, [k EXCEPT !.held = {}, !.just = {}], env)
         IN  (r.queued.key = "" /\ ~InShrineChain(r)) =>
               /\ ~r.isInDialogue /\ ~r.choiceMenuVisible
               /\ ~r.isMoving =>
                    \A k2 \in DirectionFrames :
                      update(r, k2, NoEnv).moves \in {<<"accepted">>, <<"rejected">>}

\* the overwrite prompt's Yes/No menu is showing at the shrine: the third modal of a chain in
\* which isInDialogue was cleared and set again on the way
C14_Witness ==
  /\ InTown /\ Running
  /\ choiceMenuVisible /\ choiceMenuCallback.k = "overwriteChoice"
  /\ Pos = <<9, 4>> /\ ~isMoving

\* a frame in which only the confirm key is pressed
ConfirmOnly == [esc |-> FALSE, enter |-> TRUE, held |-> {}, just |-> {}]
\* the scene after n frames with a confirm press each
RECURSIVE confirmTimes(_, _)
confirmTimes(s, n) == IF n = 0 THEN s ELSE update(confirmTimes(s, n - 1), ConfirmOnly, NoEnv)
\* confirm presses reach the dialogue session: nothing else captures them
ConfirmAdvances ==
  /\ Running /\ isInDialogue /\ dialogueActive
  /\ ~overlayWaiting /\ ~choiceMenuVisible

\* C15: a dialogue session always has at least one line left, and the confirm presses routed to
\* advance() exhaust a session with N lines left at the N-th press: no press before the N-th
\* ends it or invokes onComplete, the N-th invokes onComplete exactly once, and a further
\* press invokes no onComplete again.
C15_NthAdvanceCompletesOnce ==
  /\ (InGridScene /\ dialogueActive) => dialogueRenderer.remaining >= 1
  /\ ConfirmAdvances =>
       LET n == dialogueRenderer.remaining
           last == confirmTimes(Cur, n)
       IN  /\ \A i \in 0..(n - 1) :
                LET r == confirmTimes(Cur, i)
                IN  /\ r.completed = <<>>
                    /\ r.dialogueRenderer =
                         [dialogueRenderer EXCEPT !.remaining = n - i]
           /\ last.completed = <<dialogueRenderer.onComplete>>
           /\ last.dialogueRenderer = NoDialogue
           /\ (last.queued.key = "" /\ ~last.paused) =>
                update(last, ConfirmOnly, NoEnv).completed = last.completed

\* a session of more than one line, opened by a confirm press in a town, is at its last line
C15_Witness ==
  /\ InTown /\ ConfirmAdvances
  /\ dialogueRenderer.speaker = "guard_north"
  /\ dialogueRenderer.remaining = 1

\* what the handlers that can run now return: a frame, a delayed call, the end of a move
HandlerResults ==
  OtherHandlerResults
    \cup (IF tweens # <<>> THEN {moveComplete([Cur EXCEPT !.tweens = Tail(@)])} ELSE {})

\* C16: whenever a handler opens a choice menu the highlighted index is 0; a confirm press on a
\* visible menu hides the menu first and then calls the menu's callback exactly once, with the
\* label of the option highlighted at the press, so that the slot menu the shrine's 'Yes' opens
\* from inside the callback is visible afterwards.
C16_MenuOpensAtZeroAndConfirmsLabel ==
  /\ (InGridScene /\ Running) =>
       \A r \in HandlerResults :
         (r.choiceMenuVisible /\ (~choiceMenuVisible \/ r.choices # <<>>)) =>
           r.choiceMenuSelectedIndex = 0
  /\ (Running /\ choiceMenuVisible /\ ~overlayWaiting) =>
       /\ choiceMenuSelectedIndex \in 0..(Len(choiceMenuOptions) - 1)
       /\ \A env \in Envs :
            LET r == update(Cur, ConfirmOnly, env)
                label == choiceMenuOptions[choiceMenuSelectedIndex + 1]
            IN  /\ r.choices = <<[cb |-> choiceMenuCallback, choice |-> label, visible |-> FALSE]>>
                /\ (choiceMenuCallback.k = "shrineChoice" /\ label = Opt("Yes")) =>
                     /\ r.choiceMenuVisible
                     /\ r.choiceMenuCallback.k = "slotChoice"
                     /\ Len(r.choiceMenuOptions) = NumSlots + 1
                /\ (choiceMenuCallback.k = "shrineChoice" /\ label = Opt("No")) =>
                     ~r.choiceMenuVisible

\* the slot menu, opened from inside the callback of the shrine's Yes/No menu, is showing with
\* its first option highlighted
C16_Witness ==
  /\ InTown /\ Running
  /\ choiceMenuVisible /\ choiceMenuCallback.k = "slotChoice"
  /\ choiceMenuSelectedIndex = 0

\* the list NarratorScene shows in a phase: its selection and its length
ListPhases == {"mode_select", "dev_scene_select", "menu", "save_select"}
ListOf(n) ==
  CASE n.currentPhase = "mode_select" -> [sel |-> n.modeSelection, len |-> Len(modeOptions)]
    [] n.currentPhase = "dev_scene_select" ->
         [sel |-> n.devSceneSelection, len |-> Len(devSceneOptions)]
    [] n.currentPhase = "menu" -> [sel |-> n.menuSelection, len |-> Len(menuOptions)]
    [] OTHER -> [sel |-> n.saveSlotSelection, len |-> Len(n.saveSlotPreviews)]
OnlyKey(k) ==
  [up |-> k = "up", down |-> k = "down", left |-> FALSE, right |-> FALSE,
   enter |-> FALSE, delete |-> FALSE, esc |-> FALSE]
AfterKey(k) == narratorUpdate(narrator, OnlyKey(k), NoNarratorEnv)
\* frames of a town scene in which the choice menu gets the navigation key
MenuFrames(k) == {keys \in Frames : ~keys.esc /\ keys.just = {k}}

\* C17: in every list menu (the town choice menu and NarratorScene's mode, main, dev-scene
\* and save-slot lists) the selection index is within [0, length - 1]; up at index 0 and
\* down at index length - 1 leave it unchanged, otherwise the index changes by exactly one
C17_SelectionStaysInList ==
  /\ (InGridScene /\ choiceMenuVisible) =>
       /\ choiceMenuSelectedIndex \in 0..(Len(choiceMenuOptions) - 1)
       /\ levelUpOverlay = 0 =>
            /\ \A keys \in MenuFrames("up") :
                 LET r == update(Cur, keys, NoEnv)
                 IN  /\ r.choiceMenuVisible /\ r.choiceMenuOptions = choiceMenuOptions
                     /\ r.choiceMenuSelectedIndex =
                          IF choiceMenuSelectedIndex = 0 THEN 0 ELSE choiceMenuSelectedIndex - 1
            /\ \A keys \in MenuFrames("down") :
                 LET r == update(Cur, keys, NoEnv)
                 IN  /\ r.choiceMenuVisible /\ r.choiceMenuOptions = choiceMenuOptions
                     /\ r.choiceMenuSelectedIndex =
                          IF choiceMenuSelectedIndex = Len(choiceMenuOptions) - 1
                            THEN choiceMenuSelectedIndex ELSE choiceMenuSelectedIndex + 1
  /\ (scene = "NarratorScene" /\ narrator.currentPhase \in ListPhases) =>
       LET list == ListOf(narrator)
       IN  /\ list.sel \in 0..(list.len - 1)
           /\ AfterKey("up").currentPhase = narrator.currentPhase
           /\ ListOf(AfterKey("up")) =
                [list EXCEPT !.sel = IF list.sel = 0 THEN 0 ELSE list.sel - 1]
           /\ AfterKey("down").currentPhase = narrator.currentPhase
           /\ ListOf(AfterKey("down")) =
                [list EXCEPT !.sel = IF list.sel = list.len - 1 THEN list.sel ELSE list.sel + 1]

\* the save-slot list of NarratorScene with its last entry selected
C17_Witness ==
  /\ scene = "NarratorScene"
  /\ narrator.currentPhase = "save_select"
  /\ narrator.saveSlotSelection = Len(narrator.saveSlotPreviews) - 1
  /\ narrator.saveSlotSelection > 0

\* the option the choice menu highlights
Highlighted == choiceMenuOptions[choiceMenuSelectedIndex + 1]
\* a town scene whose input reaches the shrine's modals
ShrineInput == InTown /\ Running /\ ~overlayWaiting
\* the slot menu highlights a slot that holds a save
OnOccupiedSlot ==
  /\ ShrineInput /\ choiceMenuVisible /\ choiceMenuCallback.k = "slotChoice"
  /\ Highlighted.text = "Slot"
  /\ \E i \in 1..Len(saveSlotPreviews) :
       saveSlotPreviews[i].slot = Highlighted.slot /\ ~saveSlotPreviews[i].isEmpty
\* the overwrite prompt is on screen
OnOverwritePrompt ==
  /\ ShrineInput /\ ~choiceMenuVisible
  /\ dialogueRenderer.active /\ dialogueRenderer.onComplete.k = "overwrite"
\* the menu under the overwrite prompt highlights 'No'
OnOverwriteNo ==
  /\ ShrineInput /\ choiceMenuVisible /\ choiceMenuCallback.k = "overwriteChoice"
  /\ Highlighted = Opt("No")

\* C18: confirming an occupied slot at the shrine opens the overwrite prompt without saving,
\* completing the prompt opens the menu ['Yes', 'No'] without saving, and confirming 'No'
\* makes no call of SaveManager.save (the stored save stays as it was) and leaves the scene
\* idle: isInDialogue and choiceMenuVisible are both false.
C18_NoLeavesSaveUntouched ==
  /\ OnOccupiedSlot =>
       \A env \in Envs :
         LET r == update(Cur, ConfirmOnly, env)
         IN  /\ r.saves = <<>> /\ r.queued.key = ""
             /\ r.isInDialogue /\ ~r.choiceMenuVisible
             /\ r.dialogueRenderer.active /\ r.dialogueRenderer.onComplete.k = "overwrite"
             /\ r.selectedSaveSlot = Highlighted.slot
  /\ OnOverwritePrompt =>
       /\ dialogueRenderer.remaining = 1 /\ isInDialogue
       /\ \A env \in Envs :
            LET r == update(Cur, ConfirmOnly, env)
            IN  /\ r.saves = <<>> /\ r.queued.key = ""
                /\ r.choiceMenuVisible /\ r.choiceMenuOptions = <<Opt("Yes"), Opt("No")>>
                /\ r.choiceMenuCallback.k = "overwriteChoice"
                /\ ~r.dialogueRenderer.active
  /\ (ShrineInput /\ choiceMenuVisible /\ choiceMenuCallback.k = "overwriteChoice") =>
       choiceMenuOptions = <<Opt("Yes"), Opt("No")>>
  /\ OnOverwriteNo =>
       \A env \in Envs :
         LET r == update(Cur, ConfirmOnly, env)
         IN  /\ r.saves = <<>> /\ r.queued.key = ""
             /\ ~r.isInDialogue /\ ~r.choiceMenuVisible /\ ~r.dialogueRenderer.active

\* 'No' is highlighted in the menu under the overwrite prompt
C18_Witness == OnOverwriteNo

\* the choice menu is one whose confirm press on the highlighted option calls saveGame
OnSavingOption ==
  /\ ShrineInput /\ choiceMenuVisible
  /\ \/ choiceMenuCallback.k = "overwriteChoice" /\ Highlighted = Opt("Yes")
     \/ /\ choiceMenuCallback.k = "slotChoice" /\ Highlighted.text = "Slot"
        /\ ~OnOccupiedSlot
\* the dialogue that reports a failed save is on screen
OnFailureDialogue ==
  /\ InTown /\ Running
  /\ dialogueRenderer.active /\ dialogueRenderer.onComplete = Cb("clear", "not recorded")
\* what the handlers that can run now return, at each time they can run at
ClockedResults ==
  UNION {{update(s, k, env) : k \in Frames, env \in IF choiceMenuVisible THEN Envs ELSE {NoEnv}}
           \cup {timerCallback(s, timer) : timer \in timers}
           \cup {onResume(s)}
           \cup (IF tweens # <<>> THEN {moveComplete([s EXCEPT !.tweens = Tail(@)])} ELSE {})
         : s \in Clocked}

\* C19: a save attempt for which SaveManager.save returns false calls save once, leaves
\* playTime and sessionStartTime as they were and opens one dialogue, the failure message;
\* the confirm press that completes this dialogue leaves isInDialogue and choiceMenuVisible
\* false without another call of save; a handler changes playTime or sessionStartTime only
\* by a save that returned true, which sets them to the total play time and to the time of
\* the save.
C19_FailedSaveChangesNothing ==
  /\ OnSavingOption =>
       \A s \in Clocked : \A env \in Envs :
         LET r == update(s, ConfirmOnly, env)
         IN  /\ Len(r.saves) = 1 /\ r.saves[1].success = env.saveOk
             /\ r.queued.key = "" /\ Len(r.opened) = 1
             /\ r.isInDialogue /\ ~r.choiceMenuVisible
             /\ r.dialogueRenderer.active /\ r.dialogueRenderer.remaining = 1
             /\ ~env.saveOk =>
                  /\ r.playTime = playTime /\ r.sessionStartTime = sessionStartTime
                  /\ r.opened[1] = Cb("clear", "not recorded")
                  /\ r.dialogueRenderer.onComplete = Cb("clear", "not recorded")
             /\ env.saveOk =>
                  /\ r.playTime = playTime + (s.now - sessionStartTime)
                  /\ r.sessionStartTime = s.now
                  /\ r.opened[1] = Cb("clear", "recorded")
  /\ OnFailureDialogue =>
       /\ isInDialogue /\ ~choiceMenuVisible /\ ~overlayWaiting
       /\ \A s \in Clocked : \A env \in Envs :
            LET r == update(s, ConfirmOnly, env)
            IN  /\ r.saves = <<>> /\ r.opened = <<>> /\ r.queued.key = ""
                /\ ~r.isInDialogue /\ ~r.choiceMenuVisible /\ ~r.dialogueRenderer.active
                /\ r.playTime = playTime /\ r.sessionStartTime = sessionStartTime
  /\ (InTown /\ Running) =>
       \A r \in ClockedResults :
         (r.queued.key = "" /\ (r.playTime # playTime \/ r.sessionStartTime # sessionStartTime))
           => \E i \in 1..Len(r.saves) : r.saves[i].success

\* a save has failed: its failure message is on screen, and the session has time to lose
C19_Witness == OnFailureDialogue /\ isInDialogue /\ playTime < MaxTime

\* IshetarScene2 with the player idle on the tile above the north gate's tile (13, 2)
AboveNorthGate == scene = "IshetarScene2" /\ Idle /\ Pos = <<13, 1>>
\* frames in which the down key alone is held
DownFrames == {k \in DirectionFrames : k.held = {"down"}}
\* the move onto (13, 2) that started at (13, 1) is in progress
OntoNorthGate ==
  /\ scene = "IshetarScene2" /\ Running
  /\ isMoving /\ tweens = <<(<<13, 2>>)>> /\ Pos = <<13, 2>> /\ playerFacing = "front"
\* the payload is the one goToTravelMap builds from the flags and the play time given
GatePayload(data, flags, time) ==
  /\ data.key = "TravelScene" /\ data.from = "IshetarScene2"
  /\ data.hasGameFlags /\ data.gameFlags = flags
  /\ data.hasHeroState /\ data.playTime = time
  /\ data.playerPosition = <<>>

CarriesGameState(r) ==
  LET data == r.queued
  IN  /\ data.heroId # "" /\ data.heroId = r.heroId
      /\ data.hasHeroState /\ data.heroState # NoHeroState /\ data.heroState = r.heroState
      /\ data.hasGameFlags /\ data.gameFlags = r.gameFlags
      /\ data.inventory # "" /\ data.inventory = r.inventory
      /\ data.chests # "" /\ data.chests = r.chestStates
      /\ data.devMode = r.devMode
      /\ data.playTime \in {r.playTime, getCurrentPlayTime(r)}

\* C21: every scene.start a handler of a town scene or of TravelScene issues (to TravelScene,
\* BattleScene, ExploreScene or a town scene) has a payload with heroId, heroState, gameFlags,
\* inventory, chests and devMode equal to the scene's values at that moment, none of them
\* left out, and with a playTime.
C21_PayloadCarriesGameState ==
  InGridScene =>
    \A r \in ClockedResults :
      r.queued.key # "" =>
        /\ r.queued.key \in GridScenes \cup {"BattleScene", "ExploreScene"}
        /\ r.queued.from = scene
        /\ CarriesGameState(r)

\* a scene whose heroes the shrine restored and whose inventory and chests were handed to
\* it is about to start another scene
C21_Witness ==
  /\ InGridScene /\ heroState.restored /\ inventory = "carried" /\ chestStates = "opened"
  /\ gameFlags # {}
  /\ \E r \in ClockedResults : r.queued.key # ""

\* C22: create called with a payload that holds any subset of heroId, heroState, gameFlags,
\* playTime, inventory, chests and devMode makes each field the payload holds the scene's
\* value, whether or not another field is missing and whether or not saveData is present as
\* well; without saveData each field the payload lacks gets its default (heroId 'vicas', no
\* flags, no chests, playTime 0, the default inventory, devMode false).
C22_ProvidedKeptMissingDefault ==
  scene = "" =>
    \A left \in Leftovers(started.key) :
      LET data == started
          r == create(data.key, data, left)
      IN  /\ data.heroId # "" => r.heroId = data.heroId
          /\ data.hasHeroState => r.heroState = data.heroState
          /\ data.hasGameFlags => r.gameFlags = data.gameFlags
          /\ data.playTime # 0 => r.playTime = data.playTime
          /\ data.inventory # "" => r.inventory = data.inventory
          /\ data.chests # "" => r.chestStates = data.chests
          /\ r.devMode = data.devMode
          /\ ~data.hasSave =>
                /\ data.heroId = "" => r.heroId = "vicas"
                /\ ~data.hasGameFlags => r.gameFlags = {}
                /\ data.playTime = 0 => r.playTime = 0
                /\ data.inventory = "" => r.inventory = createDefaultInventory
                /\ data.chests = "" => r.chestStates = NoChests

\* NarratorScene shows the slot list and the highlighted slot is empty
OnEmptySlot ==
  /\ scene = "NarratorScene" /\ narrator.currentPhase = "save_select"
  /\ narrator.saveSlotPreviews[narrator.saveSlotSelection + 1].isEmpty
\* frames in which confirm, delete/backspace or both went down and no other key
EmptySlotFrames ==
  {k \in NarratorFrames : (k.enter \/ k.delete) /\ ~k.up /\ ~k.down /\ ~k.left /\ ~k.right /\ ~k.esc}

\* C23: in NarratorScene's slot list a confirm press and a delete/backspace press on an
\* empty slot do nothing: the phase stays 'save_select', the selection and the list stay as
\* they are, and SaveManager.load, SaveManager.delete and scene.start are not called.
C23_EmptySlotIsNoOp ==
  OnEmptySlot =>
    \A k \in EmptySlotFrames : \A env \in NarratorEnvs :
      LET r == narratorUpdate(narrator, k, env)
      IN  /\ r.currentPhase = "save_select"
          /\ r.saveSlotSelection = narrator.saveSlotSelection
          /\ r.saveSlotPreviews = narrator.saveSlotPreviews
          /\ r.loads = <<>> /\ r.deletes = <<>>
          /\ r.queued = NoData
          /\ NarratorSettle(r) = narrator

\* the list holds a save and the highlighted slot is an empty one
C23_Witness == OnEmptySlot /\ hasSaves(narrator.saveSlotPreviews)

\* a frame of NarratorScene in which exactly the key k went down
OneKey(k) ==
  [up |-> k = "up", down |-> k = "down", left |-> k = "left", right |-> k = "right",
   enter |-> k = "enter", delete |-> k = "delete", esc |-> k = "esc"]
\* NarratorScene shows the slot list and the highlighted slot holds a save
OnSavedSlot ==
  /\ scene = "NarratorScene" /\ narrator.currentPhase = "save_select"
  /\ ~narrator.saveSlotPreviews[narrator.saveSlotSelection + 1].isEmpty
\* index of the 'Yes' text of the delete confirmation: the right key selects it
YesIndex == updateDeleteConfirm(NarratorFields, OneKey("right")).deleteConfirmSelection

\* C25: the delete confirmation opens with 'No' selected: a confirm press that follows the
\* delete press with no left/right press in between calls SaveManager.delete for no slot;
\* a confirm press in the confirmation calls SaveManager.delete only when 'Yes' is selected,
\* and then for the slot that was highlighted.
C25_DeleteOnlyAfterYes ==
  /\ OnSavedSlot =>
       LET opened == NarratorSettle(narratorUpdate(narrator, OneKey("delete"), NoNarratorEnv))
           r == narratorUpdate(opened, OneKey("enter"), NoNarratorEnv)
       IN  /\ opened.currentPhase = "delete_confirm"
           /\ opened.deleteConfirmSelection # YesIndex
           /\ r.deletes = <<>>
           /\ r.saveSlotPreviews = narrator.saveSlotPreviews
  /\ (scene = "NarratorScene" /\ narrator.currentPhase = "delete_confirm") =>
       LET r == narratorUpdate(narrator, OneKey("enter"), NoNarratorEnv)
       IN  r.deletes = IF narrator.deleteConfirmSelection = YesIndex
                         THEN <<narrator.slotToDelete>> ELSE <<>>

\* what the handlers that are enabled now return, at each time they can run
EnabledResults ==
  IF ~InGridScene THEN {}
  ELSE IF paused THEN {onResume([s EXCEPT !.paused = FALSE]) : s \in Clocked}
  ELSE UNION {{update(s, k, env) : k \in Frames, env \in IF choiceMenuVisible THEN Envs ELSE {NoEnv}}
                \cup {timerCallback([s EXCEPT !.timers = @ \ {timer}], timer) : timer \in timers}
                \cup (IF tweens # <<>> /\ (\A timer \in timers : timer.k # "levelUp")
                        THEN {moveComplete([s EXCEPT !.tweens = Tail(@)])} ELSE {})
              : s \in Clocked}
\* sessions the handler that returned r left without completion: the one that was active and
\* those it opened, less those it completed and the one that is active when it returns
Replaced(r) ==
  (IF dialogueActive THEN 1 ELSE 0) + Len(r.opened)
    - Len(r.completed) - (IF r.dialogueRenderer.active THEN 1 ELSE 0)

\* C24: no handler (a frame with a confirm press, a delayed call, the resume handler, the
\* completion of a move) calls startDialogue while a session is active and has not completed,
\* and no handler starts a scene while a session is active; a session that confirm presses
\* reach is completed by as many presses as it has lines left.
C24_SessionsRunToCompletion ==
  /\ \A r \in EnabledResults :
       /\ Replaced(r) = 0
       /\ r.queued.key # "" => ~r.dialogueRenderer.active
  /\ (InGridScene /\ Running /\ dialogueActive) =>
       confirmTimes(Cur, dialogueRenderer.remaining).completed # <<>>

\* confirm presses that are enough to go through the longest chain of modal sessions
ConfirmDepth == 2 * MaxLines + 8
\* some sequence of at most n frames with a confirm press each, from what the handler left as
\* s, ends the modal state (isInDialogue false), starts a scene or hands over to MenuScene
RECURSIVE CanLeave(_, _)
CanLeave(s, n) ==
  \/ ~s.isInDialogue
  \/ s.queued.key # ""
  \/ /\ n > 0 /\ ~s.paused
     /\ \E env \in IF s.choiceMenuVisible THEN Envs ELSE {NoEnv} :
          CanLeave(update(Settle(s), ConfirmOnly, env), n - 1)
\* the shapes a location of the travel map can have: its type, and each of targetScene,
\* battleMap and exploreMap given or not
LocationShapes ==
  {Location("somewhere", type, <<0, 0, 0, 0>>, 1, battleMap, exploreMap, targetScene) :
     type \in {"town", "battle", "explore"}, battleMap \in {"", "hunting_paths"},
     exploreMap \in {"", "maple_tree"}, targetScene \in {"", "IshetarScene1"}}
\* TravelScene shows the last line of a location's description
OnLastDescriptionLine ==
  /\ scene = "TravelScene" /\ Running /\ isInDialogue /\ ~overlayWaiting /\ ~choiceMenuVisible
  /\ dialogueRenderer.active /\ dialogueRenderer.remaining = 1
  /\ dialogueRenderer.onComplete.k = "travel"

\* C26: from every state of a town scene or TravelScene in which isInDialogue is true some
\* sequence of confirm presses leads to isInDialogue false or to a scene start; when the
\* description dialogue of a TravelScene location completes, travelToLocation starts a scene
\* or isInDialogue is cleared, whatever the location's type and whichever of targetScene,
\* battleMap and exploreMap it has.
C26_NoSoftLock ==
  /\ (InGridScene /\ Running /\ isInDialogue) => CanLeave(Cur, ConfirmDepth)
  /\ OnLastDescriptionLine =>
       /\ LET r == update(Cur, ConfirmOnly, NoEnv)
          IN  r.queued.key # "" \/ ~r.isInDialogue
       /\ \A location \in LocationShapes :
            LET r == travelToLocation([Cur EXCEPT !.dialogueRenderer = NoDialogue], location)
            IN  r.queued.key # "" \/ ~r.isInDialogue

\* the shrine's menu with callback k gets the confirm press of a frame
OnShrineMenu(k) == ShrineInput /\ choiceMenuVisible /\ choiceMenuCallback.k = k
\* the preview the highlighted option of the slot menu stands for
HighlightedPreview == saveSlotPreviews[choiceMenuSelectedIndex + 1]
\* the overwrite confirmation (its prompt or its menu) of a town scene is open
InOverwriteChain ==
  /\ InTown
  /\ \/ dialogueRenderer.active /\ dialogueRenderer.onComplete.k = "overwrite"
     \/ choiceMenuVisible /\ choiceMenuCallback.k = "overwriteChoice"
\* the slots of the SaveManager.save calls of a handler
SavedSlots(r) == [i \in 1..Len(r.saves) |-> r.saves[i].slot]

\* C27: at the shrine SaveManager.save is called with the slot number of the preview whose
\* option was confirmed: at once for an empty preview; for a preview that holds a save only
\* by the 'Yes' of the overwrite confirmation that this selection opened, with the slot
\* selected then; 'No' at the shrine's prompt, 'Cancel' in the slot list and 'No' at the
\* overwrite confirmation call save for no slot, and no other handler calls save.
C27_SaveGoesToSelectedSlot ==
  /\ [](\A r \in EnabledResults :
          r.saves # <<>> =>
            /\ Len(r.saves) = 1
            /\ \/ /\ OnShrineMenu("slotChoice") /\ Highlighted.text = "Slot"
                  /\ HighlightedPreview.isEmpty
                  /\ r.saves[1].slot = HighlightedPreview.slot
               \/ /\ OnShrineMenu("overwriteChoice") /\ Highlighted = Opt("Yes")
                  /\ r.saves[1].slot = selectedSaveSlot)
  /\ [](OnShrineMenu("slotChoice") =>
          /\ Len(choiceMenuOptions) = Len(saveSlotPreviews) + 1
          /\ \A env \in Envs : \A s \in Clocked :
               LET r == update(s, ConfirmOnly, env)
               IN  IF Highlighted = Opt("Cancel")
                     THEN SavedSlots(r) = <<>> /\ ~r.isInDialogue /\ ~r.choiceMenuVisible
                   ELSE /\ Highlighted.slot = HighlightedPreview.slot
                        /\ IF HighlightedPreview.isEmpty
                             THEN SavedSlots(r) = <<HighlightedPreview.slot>>
                           ELSE /\ SavedSlots(r) = <<>>
                                /\ r.selectedSaveSlot = HighlightedPreview.slot
                                /\ r.dialogueRenderer.onComplete.k = "overwrite")
  /\ [](OnShrineMenu("overwriteChoice") =>
          \A env \in Envs : \A s \in Clocked :
            SavedSlots(update(s, ConfirmOnly, env)) =
              IF Highlighted = Opt("Yes") THEN <<selectedSaveSlot>> ELSE <<>>)
  /\ [](OnShrineMenu("shrineChoice") =>
          \A env \in Envs : \A s \in Clocked :
            LET r == update(s, ConfirmOnly, env)
            IN  /\ SavedSlots(r) = <<>>
                /\ Highlighted = Opt("No") => (~r.isInDialogue /\ ~r.choiceMenuVisible))
  /\ [][(InOverwriteChain' /\ ~InOverwriteChain) =>
          /\ OnShrineMenu("slotChoice") /\ Highlighted.text = "Slot"
          /\ ~HighlightedPreview.isEmpty
          /\ selectedSaveSlot' = HighlightedPreview.slot]_vars
  /\ [][(InOverwriteChain' /\ InOverwriteChain) => selectedSaveSlot' = selectedSaveSlot]_vars

\* the 'Yes' of the overwrite confirmation for the second slot is highlighted
C27_Witness ==
  OnShrineMenu("overwriteChoice") /\ Highlighted = Opt("Yes") /\ selectedSaveSlot = NumSlots

\* what SaveManager.load returns for a slot whose last successful save call was save
Stored(save) ==
  [currentMap |-> save.currentMap, flags |-> save.flags, pos |-> <<save.x, save.y>>,
   playTime |-> save.playTime, mainHero |-> save.mainHero, heroState |-> save.heroState,
   inventory |-> save.inventory, chests |-> save.chests]
\* NarratorScene's slot list with the slot of that save highlighted
SlotList(slot) ==
  [NarratorFields EXCEPT !.currentPhase = "save_select", !.saveSlotSelection = slot - 1,
                         !.saveSlotPreviews = [i \in 1..NumSlots |-> [slot |-> i, isEmpty |-> i # slot]]]
\* the scene.start of a confirm press in the slot list when load returns what save stored
Loading(save) ==
  narratorUpdate(SlotList(save.slot), OneKey("enter"),
                 [previews |-> SlotList(save.slot).saveSlotPreviews, load |-> Stored(save)]).queued
\* the saves saveGame stores when it is called now, for each slot and each time
SavesNow ==
  IF ~(InTown /\ Running) THEN {}
  ELSE {saveGame(s, slot, TRUE).saves[1] : s \in Clocked, slot \in 1..NumSlots}
       \cup (IF ~OnSavingOption THEN {}
             ELSE {update(s, ConfirmOnly, env).saves[1] :
                     s \in Clocked, env \in {e \in Envs : e.saveOk}})
\* the scene.start of a confirm press on a slot that holds a save, for whatever load returns
LoadsNow ==
  IF ~OnSavedSlot THEN {}
  ELSE {[save |-> env.load, data |-> narratorUpdate(narrator, OneKey("enter"), env).queued] :
          env \in {e \in NarratorEnvs : e.load # NoSave}}

\* C28: a save written by IshetarScene1, IshetarScene2 or IshetarScene3 and loaded from
\* NarratorScene's slot list starts the scene that wrote it, with heroId the saved mainHero;
\* a save with currentMap 'quetzi_shrine_exploration' starts TravelScene at (4, 13); a save
\* with any other currentMap starts IshetarScene1.
C28_LoadStartsSavingScene ==
  /\ \A save \in SavesNow :
       /\ Loading(save).key = scene
       /\ Loading(save).heroId = heroId /\ heroId = save.mainHero
  /\ \A l \in LoadsNow :
       /\ l.data.heroId = l.save.mainHero
       /\ l.data.key =
            CASE l.save.currentMap = "quetzi_shrine_exploration" -> "TravelScene"
              [] l.save.currentMap = "ishetar_town_post_battle" -> "IshetarScene2"
              [] l.save.currentMap = "ishetar_town_post_tutorial" -> "IshetarScene3"
              [] OTHER -> "IshetarScene1"
       /\ l.data.key = "TravelScene" => l.data.playerPosition = <<4, 13>>

\* a confirm press in IshetarScene2 saves now, for a hero other than the default one
C28_Witness == scene = "IshetarScene2" /\ OnSavingOption /\ heroId # "vicas"

\* C29: in every town scene a game saved with the player at (x, y) and loaded later from
\* NarratorScene's slot list starts the scene with the player at (x, y) and with heroState,
\* inventory, chests, playTime and flags equal to the saved values.
C29_LoadRestoresPositionAndState ==
  \A save \in SavesNow :
    LET data == Loading(save)
    IN  /\ data.key \in TownScenes
        /\ \A left \in Leftovers(data.key) :
             LET r == create(data.key, data, left)
             IN  /\ r.playerGridX = save.x /\ r.playerGridY = save.y
                 /\ r.heroState = save.heroState
                 /\ r.inventory = save.inventory
                 /\ r.chestStates = save.chests
                 /\ r.playTime = save.playTime
                 /\ r.gameFlags = save.flags

\* C30: for every combination of the URL's test flags (editor, menu, levelup, battle, travel)
\* the scene PreloadScene starts, from create or from the launch button, is one of the
\* scenes the entry point registered in the game configuration for that combination.
C30_PreloadStartsRegisteredScene ==
  (boot.scenes # <<>> /\ started.from = "PreloadScene") => started.key \in Registered

\* the town scene TravelScene enters with the flags it holds
TownFor(flags) == IF HC \in flags THEN "IshetarScene3" ELSE "IshetarScene2"
\* a town location with each value its targetScene can have
TownShapes ==
  {Location("ishetar", "town", <<4, 22, 6, 23>>, 1, "", "", targetScene) :
     targetScene \in GridScenes \cup {"NarratorScene"}}
\* the town locations whose description the handler that returned r completed
TownsEntered(r) ==
  {i \in 1..Len(r.completed) :
     /\ r.completed[i].k = "travel"
     /\ locationById(Cur, r.completed[i].arg).type = "town"
     /\ locationById(Cur, r.completed[i].arg).targetScene # ""}

\* C31: no handler of TravelScene starts IshetarScene1; the handler that completes the
\* description of a 'town' location with a targetScene starts IshetarScene3 if
\* hellhound_cave_battle_complete is set and IshetarScene2 otherwise, and travelToLocation
\* does so for every value of the location's targetScene.
C31_TravelNeverStartsFirstTown ==
  scene = "TravelScene" =>
    /\ \A r \in EnabledResults :
         /\ r.queued.key # "IshetarScene1"
         /\ TownsEntered(r) # {} =>
              /\ r.queued.key = TownFor(gameFlags)
              /\ r.queued.from = "TravelScene"
    /\ \A location \in TownShapes :
         travelToLocation(Cur, location).queued.key = TownFor(gameFlags)

\* the last line of the town's description is shown after the hellhound cave is won: the
\* next confirm press enters the town
C31_Witness ==
  /\ OnLastDescriptionLine
  /\ dialogueRenderer.onComplete.arg = "ishetar"
  /\ HC \in gameFlags

\* the two battle locations that are safe once the shrine is cleansed
SafeLocations == {"hunting_paths", "quetzi_shrine"}
\* the location TravelScene finds on a tile is one of the two
OnSafeLocation(x, y) ==
  LET location == getLocationAtPosition(Cur, x, y)
  IN  location # 0 /\ locations[location].id \in SafeLocations
\* r shows the single-line message of the location on (x, y) and has started nothing
ShowsSafeMessage(r, x, y) ==
  /\ r.isInDialogue /\ ~r.choiceMenuVisible
  /\ r.dialogueRenderer =
       [active |-> TRUE, remaining |-> 1,
        speaker |-> locations[getLocationAtPosition(Cur, x, y)].id, onComplete |-> Cb("clear", "")]
  /\ r.queued = NoData /\ ~r.paused
\* the confirm press that reaches the message (no level-up overlay takes the press) dismisses
\* it and leaves the scene idle
DismissedToIdle(r) ==
  r.levelUpOverlay = 0 =>
    LET r2 == update(r, ConfirmOnly, NoEnv)
    IN  /\ r2.completed = r.completed \o <<Cb("clear", "")>>
        /\ ~r2.isInDialogue /\ ~r2.dialogueRenderer.active /\ ~r2.choiceMenuVisible
        /\ r2.queued = NoData /\ ~r2.paused /\ r2.moves = r.moves

AmbushOpened(r) == \E i \in 1..Len(r.opened) : r.opened[i] = Cb("ambush", "")
\* the handler that returned r completed the ambush dialogue
AmbushCompleted(r) == \E i \in 1..Len(r.completed) : r.completed[i] = Cb("ambush", "")
\* the ambush dialogue is shown
AmbushPending == scene = "TravelScene" /\ dialogueActive /\ dialogueRenderer.onComplete = Cb("ambush", "")

\* C33: the ambush dialogue is started by no handler but the completion of a move, and by it
\* exactly when the move ends on row 19 with quetzi_shrine_battle_complete set and
\* hellhound_ambush_triggered unset; starting it sets hellhound_ambush_triggered.  While the
\* dialogue takes the confirm presses the player stays on the tile, and the BattleScene
\* payload built at its end carries hellhound_ambush_triggered and that tile as
\* returnPosition.  Once set, the flag stays set in the scene, reaches every scene started
\* with the scene's data and comes back with it, so the ambush does not fire again.
C33_AmbushFiresOnce ==
  /\ [](scene = "TravelScene" =>
          /\ \A r \in OtherHandlerResults : ~AmbushOpened(r)
          /\ (Running /\ tweens # <<>>) =>
               LET r == moveComplete([Cur EXCEPT !.tweens = Tail(@)])
                   due == QS \in gameFlags /\ AMB \notin gameFlags /\ playerGridY = 19
               IN  /\ AmbushOpened(r) <=> due
                   /\ due =>
                        /\ r.opened = <<Cb("ambush", "")>>
                        /\ r.gameFlags = gameFlags \cup {AMB}
                        /\ r.isInDialogue /\ r.queued = NoData
                        /\ r.dialogueRenderer.onComplete = Cb("ambush", "")
                        /\ <<r.playerGridX, r.playerGridY>> = Pos
          /\ AmbushPending => AMB \in gameFlags
          /\ (AmbushPending /\ isInDialogue) => playerGridY = 19
          /\ \A r \in EnabledResults :
               AmbushCompleted(r) =>
                 /\ r.queued.key = "BattleScene"
                 /\ r.queued.battleMap = "hellhound_cave"
                 /\ AMB \in r.queued.gameFlags
                 /\ r.queued.returnPosition = Pos)
  /\ [][(AmbushPending /\ AmbushPending' /\ isInDialogue') => (isInDialogue /\ Pos' = Pos)]_vars
  /\ [][(InGridScene /\ AMB \in gameFlags) =>
          IF scene' \in GridScenes THEN AMB \in gameFlags' ELSE AMB \in started'.gameFlags]_vars

\* the last line of the ambush dialogue is shown on row 19: the next confirm press builds the
\* BattleScene payload
C33_Witness ==
  /\ AmbushPending /\ Running /\ isInDialogue /\ ~overlayWaiting
  /\ dialogueRenderer.remaining = 1
  /\ playerGridY = 19

\* the scene as it is resumed with the given number of listeners registered
Resumed(listeners) == emitResume([Cur EXCEPT !.paused = FALSE], listeners)
\* the handler that returned r completed Hrothgar's dialogue
HrothgarCompleted(r) == \E i \in 1..Len(r.completed) : r.completed[i] = Cb("hrothgar", "")

\* C34: in a town scene the handler that completes Hrothgar's dialogue pauses the scene and
\* launches MenuScene once, with initialView 'hrothgar'; the resume that follows sets one
\* delayed call, however many resume listeners the creates of the instance have registered,
\* and that call starts the Hrothgar ending dialogue once; a press of ESC launches MenuScene
\* without an initialView, and the resume that follows it sets no delayed call and starts no
\* dialogue.
C34_HrothgarEndingOnce ==
  InTown =>
    /\ \A r \in EnabledResults :
         HrothgarCompleted(r) =>
           /\ r.paused /\ r.launched = <<"hrothgar">>
           /\ r.pendingHrothgarDialogue /\ ~r.isInDialogue
    /\ ~paused => ~pendingHrothgarDialogue
    /\ (Running /\ ~overlayWaiting) =>
         \A k \in {f \in Frames : f.esc} :
           LET r == update(Cur, k, NoEnv)
           IN  r.paused /\ r.launched = <<"">> /\ ~r.pendingHrothgarDialogue
    /\ paused =>
         \A listeners \in 1..MaxCreates :
           LET r == Resumed(listeners)
               call == Timer("hrothgar", 0)
               fired == timerCallback([r EXCEPT !.timers = @ \ {call}], call)
           IN  /\ ~r.paused /\ ~r.pendingHrothgarDialogue /\ r.opened = <<>>
               /\ IF pendingHrothgarDialogue
                     THEN /\ r.scheduled = <<call>>
                          /\ r.timers = timers \cup {call}
                          /\ fired.opened = <<Cb("clear", "")>>
                          /\ fired.dialogueRenderer.speaker = "Hrothgar"
                          /\ fired.isInDialogue
                          /\ call \notin fired.timers /\ ~fired.pendingHrothgarDialogue
                     ELSE r.scheduled = <<>> /\ r.timers = timers

\* Hrothgar's dialogue has completed: the scene is paused under Hrothgar's menu
C34_Witness == InTown /\ paused /\ pendingHrothgarDialogue

\* every tile of the town grid
TownTiles == Rect(0, 0, TownGridWidth - 1, TownGridHeight - 1)

\* C35: the cached town map's terrain keeps the values of the JSON file whatever scenes
\* have been created: IshetarScene1 and IshetarScene3 read these values on every tile,
\* the north-gate tiles included, IshetarScene2 reads 0 on the four north-gate tiles and the
\* cached values elsewhere, and no step of a running scene (a move among them) changes the
\* terrain the scene reads or the cached terrain.
C35_UnlockStaysPrivate ==
  /\ [](/\ mapCache = {}
        /\ scene \in {"IshetarScene1", "IshetarScene3"} =>
             \A p \in TownTiles : terrainValue(terrain, p[1], p[2]) = cachedValue(p[1], p[2])
        /\ scene = "IshetarScene2" =>
             \A p \in TownTiles :
               terrainValue(terrain, p[1], p[2]) =
                 IF p \in NorthGateUnlock THEN 0 ELSE cachedValue(p[1], p[2]))
  /\ [][/\ mapCache' = mapCache
        /\ (InGridScene /\ scene' = scene) => terrain' = terrain]_vars

\* IshetarScene2 has been created and the player walks onto an unlocked north-gate tile
C35_Witness ==
  /\ scene = "IshetarScene2" /\ isMoving
  /\ Pos \in northGateTiles
  /\ cachedValue(playerGridX, playerGridY) = 2

\* the fields create resets hold their reset values
ResetByCreate ==
  /\ ~isInDialogue /\ ~isMoving /\ ~choiceMenuVisible
  /\ triggeredEvents = {} /\ shownBlockedDialogue = {} /\ ~hasShownCongrats
  /\ npcs = (CASE scene = "IshetarScene1" -> placeNPCs1
               [] scene = "IshetarScene2" -> placeNPCs2
               [] scene = "IshetarScene3" -> placeNPCs3
               [] OTHER -> <<>>)
  /\ locations = (IF scene = "TravelScene" THEN placeLocationMarkers ELSE <<>>)

\* a frame with only direction keys held is handled as a move request
AcceptsMovement ==
  \A k \in Frames :
    (k.held # {} /\ ~k.enter /\ ~k.esc) =>
      LET d == heldDirection(k.held)
      IN  update(Cur, k, NoEnv) =
            IF scene = "TravelScene" THEN movePlayerTravel(Cur, d[1], d[2])
            ELSE movePlayer(Cur, d[1], d[2])

\* C36: whenever a town scene or TravelScene is created on leaving another scene, whatever
\* the reused instance was left in, the scene is idle: isInDialogue, isMoving and
\* choiceMenuVisible are false, the NPC or location list is rebuilt, the trigger sets are
\* empty, and the first frame with a direction key held is handled as a move request.
C36_CreateLeavesIdle ==
  [][(scene' # scene /\ scene' \in GridScenes) => (ResetByCreate /\ AcceptsMovement)']_vars

\* NarratorScene's main menu with 'Continue' highlighted
OnContinue ==
  /\ scene = "NarratorScene" /\ narrator.currentPhase = "menu"
  /\ menuOptions[narrator.menuSelection + 1] = "Continue"
\* SaveManager answers that no slot holds a save
NoSavesEnvs == {env \in NarratorEnvs : ~hasSaves(env.previews)}

\* C37: while NarratorScene's phase is 'save_select' or 'delete_confirm' at least one of its
\* slot previews is non-empty; a confirm press on 'Continue' with no saves starts the no-save
\* dialogue, whose completion shows the main menu; a frame of the delete confirmation that
\* deletes the last occupied slot ends in the main menu.
C37_SlotPhasesNeedASave ==
  /\ (scene = "NarratorScene" /\ narrator.currentPhase \in {"save_select", "delete_confirm"}) =>
       hasSaves(narrator.saveSlotPreviews)
  /\ OnContinue =>
       \A env \in NoSavesEnvs :
         LET r == narratorUpdate(narrator, OneKey("enter"), env)
         IN  /\ r.currentPhase = "intro"
             /\ r.dialogue.active /\ r.dialogue.remaining = Len(noSaveLines)
             /\ r.dialogue.onComplete = Cb("showMainMenu", "")
  /\ (scene = "NarratorScene" /\ narrator.currentPhase = "delete_confirm") =>
       \A keys \in NarratorFrames :
         LET r == narratorUpdate(narrator, keys, NoNarratorEnv)
         IN  (r.deletes # <<>> /\ ~hasSaves(r.saveSlotPreviews)) => r.currentPhase = "menu"

\* C38: the payload of every scene.start a handler of a town scene issues carries the
\* scene's playTime (what create received, or what the last successful save recorded) plus
\* the seconds that have passed since create (or since that save), and the playTime a grid
\* scene receives from the grid scene before it is never less than that scene's playTime.
C38_PlayTimeAccounted ==
  /\ [](InTown =>
          \A r \in EnabledResults :
            r.queued.key # "" => r.queued.playTime = getCurrentPlayTime(r))
  /\ [][(InGridScene /\ scene' \in GridScenes /\ scene' # scene) => playTime' >= playTime]_vars

====
